---- MODULE Spec2Model ----
(***************************************************************************)
(* Metrical and accentual responsion of responsio-accentuum:               *)
(* src/stats.py (canonical_sylls, the responsion checks, the accentual     *)
(* responder) and src/stats_comp.py (melodic contours, compatibility).     *)
(*                                                                         *)
(* A <syll> element is a record: weight is the weight attribute ("" when   *)
(* it is missing or neither heavy nor light), anceps / resolution /        *)
(* brevis_in_longo are TRUE iff the attribute equals 'True', text is the   *)
(* element's text as a sequence of characters (<<>> for no text), tail is  *)
(* the text after the closing tag.  An <l> element is a record with its n  *)
(* attribute (NoAttr when missing) and its syllables; a <strophe> is a     *)
(* record with its responsion attribute and its lines.                     *)
(***************************************************************************)
EXTENDS Integers, Sequences, FiniteSets, TLC

VARIABLES
    strophes,      \* the strophes handed to a strophe-level function
    lines,         \* the lines handed to a line-level function (one per strophe)
    pc,            \* control point of the function being run
    canon,         \* canonical_sylls of each line
    units,         \* build_units_for_accent of each line
    responds,      \* result of metrically_responding_lines_polystrophic
    pairwise,      \* pairwise[a][b]: result of metrically_responding_lines
    line_pos,      \* index of the line set a strophe-level loop is at
    combined,      \* combined_accent_lists of the strophe-level loop
    result,        \* what the function being run returned or raised
    buckets,       \* sizes of up and down at each position of each line set
    ratios,        \* canticum_list_of_line_compatibility_ratio_lists
    normalized_canticum,  \* what compatibility_canticum returns
    line_contours, \* get_contours_line of each line
    all_contours,  \* what all_contours_line returned or raised
    xml_input,     \* the xml_text assert_responsion is called with
    xml_text,      \* xml_text of assert_responsion, as carried forward
    attempt_autofix,   \* the parameter of assert_responsion
    group_pos,     \* index of the responsion group the outer loop is at
    line_index,    \* line_index of the inner loop, counted from 1
    group_lines,   \* strophe_lines: the lines the inner loop zips
    buggy_lines,
    total_buggy_lines,
    diff_indices_list,
    autofix_result,    \* (success, fixed_xml) of the last autofix_responsion
    perfect_responsion, \* the first value assert_responsion returns
    checked,       \* history: what became of each line set gone through
    stat_dictionary, \* what accentual_responsion_metric_canticum returns
    shape_id,      \* the responsion_id get_shape_canticum is called with
    row_lengths,   \* what get_shape_canticum returns
    cached_corpus, \* the line items of the Pindar corpus, in the order cached
    external_corpus, \* the external folder: whether it is there, its line items
    exclude_file,  \* the file being baselined
    strophe_scheme, \* the target length of each line position
    sample_size,   \* the number of strophes of the sample
    line_idx,      \* the line position being filled
    attempts,      \* sampling attempts made for the line position
    position_lines, \* the lines accepted for the line position
    needed,        \* calls of paired_line_fallback still to make
    lines_by_position, \* the lines accepted for the finished line positions
    used_metrical_positions, \* sample_used_metrical_positions
    used_responsions_per_position,
    length,        \* the target length lyric_line_sample_cached is called with
    amount,        \* extra_length or padding_amount of the stage it is at
    tried,         \* history: the stages and amounts it searched, in order
    sample_line    \* what it returns

contourVars == <<line_contours, all_contours>>

compileVars == <<xml_input, xml_text, attempt_autofix, group_pos, line_index,
                 group_lines, buggy_lines, total_buggy_lines,
                 diff_indices_list, autofix_result, perfect_responsion,
                 checked>>

metricVars == <<stat_dictionary>>

shapeVars == <<shape_id, row_lengths>>

corpusVars == <<cached_corpus, external_corpus, exclude_file>>

loopVars == <<strophe_scheme, sample_size, line_idx, attempts, position_lines,
              needed, lines_by_position>>

sampleVars == <<used_metrical_positions, used_responsions_per_position,
                length, amount, tried, sample_line>>

baselineVars == <<shapeVars, corpusVars, loopVars, sampleVars>>

\* the variables of the responsion checks, pc and result apart
coreVars == <<strophes, lines, canon, units, responds, pairwise, line_pos,
              combined, buckets, ratios, normalized_canticum>>

vars == <<strophes, lines, pc, canon, units, responds, pairwise, line_pos,
          combined, result, buckets, ratios, normalized_canticum,
          contourVars, compileVars, metricVars, baselineVars>>

-----------------------------------------------------------------------------
(* Bounds of the model *)

\* single-line specification: syllables of the line
MaxCanonSylls == 4
\* contour specification: syllables in the whole line set
MaxContourSylls == 5
\* scan specification: syllables of the line
MaxScanSylls == 4
\* compile specification: lines and syllables in the whole text, highest
\* position in a diff list given to autofix_responsion directly
MaxAssertLines == 4
MaxAssertSylls == 4
MaxDiffPosition == 2
\* line-set specification: lines in the set, syllables in the whole set
MaxLines == 3
MaxSylls == 4
\* strophe specification: lines and syllables in the whole group of strophes
MaxStropheLines == 4
MaxStropheSylls == 4

\* the lines and the syllables of a strophe pair
MaxPairLines == 3
MaxPairSylls == 4

\* the lines and the syllables of a canticum of the metric
MaxMetricLines == 3
MaxMetricSylls == 4

\* the lines and the syllables of a file whose shape is taken
MaxShapeLines == 2
MaxShapeSylls == 5

\* sampler specification: the lines of the Pindar corpus and of the external
\* corpus, the greatest target length
MaxSampleLines == 2
MaxExternalLines == 2
MaxSampleLength == 3

\* baseline specification: the lines of the Pindar corpus and of the external
\* corpus, the line positions of the strophe scheme, the greatest length of a
\* position, the strophes of the sample
MaxBaselineLines == 3
MaxBaselineExternalLines == 1
MaxBaselinePositions == 2
MaxBaselineLength == 2
MaxSampleSize == 2

\* compatibility specification: lines in the whole canticum, syllables in a
\* line, syllables in the whole canticum
MaxCompLines == 3
MaxCompLineLen == 2
MaxCompSylls == 6

NoAttr == "NoAttr"

Range(s) == {s[k] : k \in DOMAIN s}

RECURSIVE SeqSum(_)
SeqSum(s) == IF s = <<>> THEN 0 ELSE Head(s) + SeqSum(Tail(s))

-----------------------------------------------------------------------------
(* Syllables and lines *)

Syll(w, a, r, b, t) ==
    [weight |-> w, anceps |-> a, resolution |-> r, brevis_in_longo |-> b,
     text |-> t, tail |-> ""]

Line(n, sylls) == [n |-> n, sylls |-> sylls]

PlainText == <<"t", "a">>

-----------------------------------------------------------------------------
(* 1) METRICAL RESPONSION *)

\* One turn of canonical_sylls' while loop at index i: the token appended and
\* the index the loop continues at.
canonical_step_anceps_first(syllables, i) ==
    LET current == syllables[i] IN
    IF current.anceps THEN [token |-> "anceps", next |-> i + 1]
    ELSE IF current.resolution /\ i + 1 <= Len(syllables)
            /\ syllables[i + 1].resolution
    THEN [token |-> "heavy", next |-> i + 2]
    ELSE IF current.brevis_in_longo THEN [token |-> "heavy", next |-> i + 1]
    ELSE [token |-> IF current.weight \in {"heavy", "light"}
                    THEN current.weight ELSE "light",
          next |-> i + 1]

canonical_step_no_skip(syllables, i) ==
    LET current == syllables[i] IN
    IF current.resolution /\ i + 1 <= Len(syllables)
       /\ syllables[i + 1].resolution
    THEN [token |-> "heavy", next |-> i + 1]
    ELSE IF current.anceps THEN [token |-> "anceps", next |-> i + 1]
    ELSE IF current.brevis_in_longo THEN [token |-> "heavy", next |-> i + 1]
    ELSE [token |-> IF current.weight \in {"heavy", "light"}
                    THEN current.weight ELSE "light",
          next |-> i + 1]

canonical_step(syllables, i) ==
    LET current == syllables[i]
        is_anceps == current.anceps
        is_res == current.resolution
        is_brevis_in_longo == current.brevis_in_longo
        current_weight == current.weight
    IN
    IF is_res /\ i + 1 <= Len(syllables) /\ syllables[i + 1].resolution
    THEN [token |-> "heavy", next |-> i + 2]
    ELSE IF is_anceps THEN [token |-> "anceps", next |-> i + 1]
    ELSE IF is_brevis_in_longo THEN [token |-> "heavy", next |-> i + 1]
    ELSE [token |-> IF current_weight \in {"heavy", "light"}
                    THEN current_weight ELSE "light",
          next |-> i + 1]

RECURSIVE canonical_loop(_, _)
canonical_loop(syllables, i) ==
    IF i > Len(syllables) THEN <<>>
    ELSE LET st == canonical_step(syllables, i)
         IN <<st.token>> \o canonical_loop(syllables, st.next)

canonical_sylls(xml_line) == canonical_loop(xml_line.sylls, 1)


\* metrically_responding_lines: the two-line check
metrically_responding_lines(strophe_line, antistrophe_line) ==
    LET c1 == canonical_sylls(strophe_line)
        c2 == canonical_sylls(antistrophe_line)
    IN
    IF Len(c1) # Len(c2) THEN FALSE
    ELSE \A k \in 1..Len(c1) :
            \/ c1[k] = "anceps" \/ c2[k] = "anceps"
            \/ c1[k] = c2[k]

SetMin(S) == CHOOSE x \in S : \A y \in S : x <= y

\* the positions zip(*strophe_lines) yields: up to the shortest line
ZipPositions(seqs) ==
    IF DOMAIN seqs = {} THEN {}
    ELSE 1..SetMin({Len(seqs[k]) : k \in DOMAIN seqs})

polystrophic_no_length_check(ls) ==
    LET strophe_lines == [k \in DOMAIN ls |-> canonical_sylls(ls[k])] IN
    \A position \in ZipPositions(strophe_lines) :
        LET non_anceps ==
                {strophe_lines[k][position] : k \in DOMAIN ls} \ {"anceps"}
        IN ~(non_anceps # {} /\ Cardinality(non_anceps) # 1)

polystrophic_adjacent_only(ls) ==
    \A k \in DOMAIN ls :
        k + 1 \in DOMAIN ls => metrically_responding_lines(ls[k], ls[k + 1])

\* metrically_responding_lines_polystrophic(*strophes)
metrically_responding_lines_polystrophic(ls) ==
    LET strophe_lines == [k \in DOMAIN ls |-> canonical_sylls(ls[k])]
        line_lengths == {Len(strophe_lines[k]) : k \in DOMAIN ls}
        check1 == Cardinality(line_lengths) = 1
        check2 ==
            \A position \in ZipPositions(strophe_lines) :
                LET non_anceps ==
                        {strophe_lines[k][position] : k \in DOMAIN ls}
                            \ {"anceps"}
                IN ~(non_anceps # {} /\ Cardinality(non_anceps) # 1)
    IN check1 /\ check2

-----------------------------------------------------------------------------
(* 2) ACCENTUAL RESPONSION: units *)

\* line_n = line.get('n') or "???"
line_n_of(line) == IF line.n = NoAttr THEN "???" ELSE line.n

build_units_step_second_flag_ignored(sylls, i, unit_ordinal, line_n) ==
    LET s == sylls[i] IN
    IF s.resolution /\ i + 1 <= Len(sylls)
    THEN [unit |-> [type |-> "double", syll1 |-> sylls[i],
                    syll2 |-> sylls[i + 1], unit_ord |-> unit_ordinal,
                    line_n |-> line_n],
          next |-> i + 2]
    ELSE [unit |-> [type |-> "single", syll |-> s,
                    unit_ord |-> unit_ordinal, line_n |-> line_n],
          next |-> i + 1]

\* One turn of build_units_for_accent's while loop at index i.
build_units_step(sylls, i, unit_ordinal, line_n) ==
    LET s == sylls[i]
        is_res == s.resolution
    IN
    IF is_res /\ i + 1 <= Len(sylls) /\ sylls[i + 1].resolution
    THEN [unit |-> [type |-> "double", syll1 |-> sylls[i],
                    syll2 |-> sylls[i + 1], unit_ord |-> unit_ordinal,
                    line_n |-> line_n],
          next |-> i + 2]
    ELSE [unit |-> [type |-> "single", syll |-> s,
                    unit_ord |-> unit_ordinal, line_n |-> line_n],
          next |-> i + 1]

RECURSIVE build_units_loop(_, _, _, _)
build_units_loop(sylls, i, unit_ordinal, line_n) ==
    IF i > Len(sylls) THEN <<>>
    ELSE LET st == build_units_step(sylls, i, unit_ordinal, line_n)
         IN <<st.unit>>
              \o build_units_loop(sylls, st.next, unit_ordinal + 1, line_n)

build_units_for_accent(line) ==
    build_units_loop(line.sylls, 1, 1, line_n_of(line))

-----------------------------------------------------------------------------
(* 2) ACCENTUAL RESPONSION: accents *)

NoLists == <<<<>>, <<>>, <<>>>>

\* a return value of the accentual responder: False, or the three lists
ReturnFalse == [kind |-> "False", lists |-> NoLists]
\* an exception leaves the function
Raised(exception) == [kind |-> exception, lists |-> NoLists]

ReturnLists(accent_lists) == [kind |-> "lists", lists |-> accent_lists]
NoResult == [kind |-> "none", lists |-> NoLists]

\* accents: the three categories in the order of the dict, and the
\* characters of each
AccentNames == <<"acute", "grave", "circumflex">>

AccentChars(accent_name) ==
    CASE accent_name = "acute" -> {"a_acute"}
      [] accent_name = "grave" -> {"a_grave"}
      [] accent_name = "circumflex" -> {"a_circ"}

\* grc_utils.ACUTES
ACUTES == {"a_acute"}

\* grc_utils.normalize_word: a vowel followed by a combining acute becomes the
\* precomposed accented vowel, every other character is kept
RECURSIVE normalize_word(_)
normalize_word(text) ==
    IF text = <<>> THEN <<>>
    ELSE IF Len(text) >= 2 /\ text[1] = "a" /\ text[2] = "+acute"
    THEN <<"a_acute">> \o normalize_word(SubSeq(text, 3, Len(text)))
    ELSE <<text[1]>> \o normalize_word(Tail(text))

has_acute(syll) ==
    LET norm == normalize_word(syll.text)
    IN \E k \in DOMAIN norm : norm[k] \in ACUTES

is_heavy(syll) == syll.weight = "heavy"

\* the dict a literal or comprehension over pairs <<key, value>> builds: a
\* later pair with the same key replaces the earlier one
DictOf(pairs) ==
    [key \in {pairs[k][1] : k \in DOMAIN pairs} |->
        LET last == CHOOSE k \in DOMAIN pairs :
                        /\ pairs[k][1] = key
                        /\ \A m \in DOMAIN pairs : pairs[m][1] = key => m <= k
        IN pairs[last][2]]

UnitKey(u) == <<u.line_n, u.unit_ord>>

do_single_vs_single_polystrophic(us, accent_lists) ==
    LET texts == [k \in DOMAIN us |-> <<UnitKey(us[k]), us[k].syll.text>>]
        normalized == [k \in DOMAIN us |-> normalize_word(us[k].syll.text)]
    IN
    [i \in 1..3 |->
        IF \A k \in DOMAIN us : \E c \in DOMAIN normalized[k] :
                normalized[k][c] \in AccentChars(AccentNames[i])
        THEN Append(accent_lists[i], DictOf(texts))
        ELSE accent_lists[i]]

double_vs_double_second_text_for_first(us, accent_lists) ==
    LET first_acutes == \A k \in DOMAIN us : has_acute(us[k].syll1)
        second_acutes == \A k \in DOMAIN us : has_acute(us[k].syll2)
        seconds == DictOf([k \in DOMAIN us |->
                              <<UnitKey(us[k]), us[k].syll2.text>>])
        acutes == (IF first_acutes THEN <<seconds>> ELSE <<>>)
                    \o (IF second_acutes THEN <<seconds>> ELSE <<>>)
    IN [accent_lists EXCEPT ![1] = accent_lists[1] \o acutes]

do_double_vs_double_polystrophic(us, accent_lists) ==
    LET first_acutes == \A k \in DOMAIN us : has_acute(us[k].syll1)
        second_acutes == \A k \in DOMAIN us : has_acute(us[k].syll2)
        firsts == DictOf([k \in DOMAIN us |->
                             <<UnitKey(us[k]), us[k].syll1.text>>])
        seconds == DictOf([k \in DOMAIN us |->
                              <<UnitKey(us[k]), us[k].syll2.text>>])
        acutes == (IF first_acutes THEN <<firsts>> ELSE <<>>)
                    \o (IF second_acutes THEN <<seconds>> ELSE <<>>)
    IN [accent_lists EXCEPT ![1] = accent_lists[1] \o acutes]

do_mixed_single_double_polystrophic(us, accent_lists) ==
    LET single_units == SelectSeq(us, LAMBDA u : u.type = "single")
        double_units == SelectSeq(us, LAMBDA u : u.type = "double")
        S == Len(single_units)
        D == Len(double_units)
        match(u, d) == DictOf(<< <<UnitKey(d), d.syll2.text>>,
                                 <<UnitKey(u), u.syll.text>> >>)
        \* for u in single_units: for d in double_units: append
        matches == [e \in 1..(S * D) |->
                       match(single_units[((e - 1) \div D) + 1],
                             double_units[((e - 1) % D) + 1])]
    IN
    IF ~(\A k \in DOMAIN single_units :
            is_heavy(single_units[k].syll) /\ has_acute(single_units[k].syll))
    THEN accent_lists
    ELSE IF ~(\A k \in DOMAIN double_units : has_acute(double_units[k].syll2))
    THEN accent_lists
    ELSE [accent_lists EXCEPT
            ![1] = accent_lists[1]
                     \o matches]

\* the body of the loop over zip(*units_list): the units of one index
compare_units(us, accent_lists) ==
    LET ordinals == {us[k].unit_ord : k \in DOMAIN us} IN
    IF Cardinality(ordinals) > 1 THEN accent_lists
    ELSE IF \A k \in DOMAIN us : us[k].type = "single"
    THEN do_single_vs_single_polystrophic(us, accent_lists)
    ELSE IF \A k \in DOMAIN us : us[k].type = "double"
    THEN do_double_vs_double_polystrophic(us, accent_lists)
    ELSE do_mixed_single_double_polystrophic(us, accent_lists)

RECURSIVE compare_units_loop(_, _, _)
compare_units_loop(units_list, j, accent_lists) ==
    IF j \notin ZipPositions(units_list) THEN accent_lists
    ELSE compare_units_loop(
             units_list, j + 1,
             compare_units([k \in DOMAIN units_list |-> units_list[k][j]],
                           accent_lists))

\* accentually_responding_syllables_of_lines_polystrophic(*strophe_lines)
accentually_responding_syllables_of_lines_polystrophic(ls) ==
    IF ~metrically_responding_lines_polystrophic(ls) THEN ReturnFalse
    ELSE LET units_list ==
                [k \in DOMAIN ls |-> build_units_for_accent(ls[k])]
         IN
         IF ~(\A k \in DOMAIN ls : Len(units_list[k]) = Len(units_list[1]))
         THEN ReturnFalse
         ELSE ReturnLists(compare_units_loop(units_list, 1, NoLists))

-----------------------------------------------------------------------------
(* 2) ACCENTUAL RESPONSION: strophes *)

Strophe(responsion, ls) == [responsion |-> responsion, lines |-> ls]

\* the p-th element of zip(*strophe_lines)
LineGroup(ss, p) == [k \in DOMAIN ss |-> ss[k].lines[p]]

\* do_single_vs_single(u1, u2, accent_lists)
do_single_vs_single(u1, u2, accent_lists) ==
    LET norm_s == normalize_word(u1.syll.text)
        norm_a == normalize_word(u2.syll.text)
    IN
    [i \in 1..3 |->
        IF /\ \E c \in DOMAIN norm_s : norm_s[c] \in AccentChars(AccentNames[i])
           /\ \E c \in DOMAIN norm_a : norm_a[c] \in AccentChars(AccentNames[i])
        THEN Append(accent_lists[i],
                    DictOf(<< <<UnitKey(u1), u1.syll.text>>,
                              <<UnitKey(u2), u2.syll.text>> >>))
        ELSE accent_lists[i]]

\* do_double_vs_double(u1, u2, accent_lists)
do_double_vs_double(u1, u2, accent_lists) ==
    LET firsts == DictOf(<< <<UnitKey(u1), u1.syll1.text>>,
                            <<UnitKey(u2), u2.syll1.text>> >>)
        seconds == DictOf(<< <<UnitKey(u1), u1.syll2.text>>,
                             <<UnitKey(u2), u2.syll2.text>> >>)
        acutes ==
            (IF has_acute(u1.syll1) /\ has_acute(u2.syll1)
             THEN <<firsts>> ELSE <<>>)
            \o (IF has_acute(u1.syll2) /\ has_acute(u2.syll2)
                THEN <<seconds>> ELSE <<>>)
    IN [accent_lists EXCEPT ![1] = accent_lists[1] \o acutes]

\* do_double_vs_single(u_double, u_single, accent_lists)
do_double_vs_single(u_double, u_single, accent_lists) ==
    IF ~is_heavy(u_single.syll) THEN accent_lists
    ELSE IF has_acute(u_double.syll2) /\ has_acute(u_single.syll)
    THEN [accent_lists EXCEPT
            ![1] = Append(accent_lists[1],
                          DictOf(<< <<UnitKey(u_double), u_double.syll2.text>>,
                                    <<UnitKey(u_single), u_single.syll.text>> >>))]
    ELSE accent_lists

\* the body of the loop over zip(units1, units2)
compare_unit_pair(u1, u2, accent_lists) ==
    IF u1.unit_ord # u2.unit_ord THEN accent_lists
    ELSE IF u1.type = "single" /\ u2.type = "single"
    THEN do_single_vs_single(u1, u2, accent_lists)
    ELSE IF u1.type = "double" /\ u2.type = "double"
    THEN do_double_vs_double(u1, u2, accent_lists)
    ELSE IF u1.type = "double" /\ u2.type = "single"
    THEN do_double_vs_single(u1, u2, accent_lists)
    ELSE do_double_vs_single(u2, u1, accent_lists)

RECURSIVE compare_unit_pairs(_, _, _, _)
compare_unit_pairs(units1, units2, j, accent_lists) ==
    IF j > Len(units1) \/ j > Len(units2) THEN accent_lists
    ELSE compare_unit_pairs(units1, units2, j + 1,
             compare_unit_pair(units1[j], units2[j], accent_lists))

\* accentually_responding_syllables_of_line_pair(strophe_line,
\* antistrophe_line)
accentually_responding_syllables_of_line_pair(strophe_line, antistrophe_line) ==
    IF ~metrically_responding_lines(strophe_line, antistrophe_line)
    THEN ReturnFalse
    ELSE LET units1 == build_units_for_accent(strophe_line)
             units2 == build_units_for_accent(antistrophe_line)
         IN IF Len(units1) # Len(units2) THEN ReturnFalse
            ELSE ReturnLists(compare_unit_pairs(units1, units2, 1, NoLists))

\* strophe_id and antistrophe_id of
\* accentually_responding_syllables_of_strophe_pair: both are read from the
\* strophe
pair_ids(strophe, antistrophe) ==
    [strophe_id |-> strophe.responsion,
     antistrophe_id |-> strophe.responsion]

\* its checks before the loop over the line pairs
strophe_pair_precheck(strophe, antistrophe) ==
    IF pair_ids(strophe, antistrophe).strophe_id
         # pair_ids(strophe, antistrophe).antistrophe_id
    THEN FALSE
    ELSE Len(strophe.lines) = Len(antistrophe.lines)

\* the body of its loop over zip(s_lines, a_lines)
line_pair_step(s_line, a_line, comb) ==
    IF ~metrically_responding_lines(s_line, a_line)
    THEN [outcome |-> "False", combined |-> comb]
    ELSE LET line_accent_lists ==
                accentually_responding_syllables_of_line_pair(s_line, a_line)
         IN
         IF line_accent_lists.kind = "False"
         THEN [outcome |-> "False", combined |-> comb]
         ELSE [outcome |-> "extend",
               combined |-> [i \in 1..3 |->
                                comb[i] \o line_accent_lists.lists[i]]]

\* the checks of accentually_responding_syllables_of_strophes_polystrophic
\* before its loop: one responsion id, one line count
strophes_precheck(ss) ==
    LET responsion_id == ss[1].responsion
        num_lines == Len(ss[1].lines)
    IN
    IF \E k \in DOMAIN ss : ss[k].responsion # responsion_id THEN FALSE
    ELSE IF \E k \in DOMAIN ss : Len(ss[k].lines) # num_lines THEN FALSE
    ELSE TRUE

\* ', '.join(line.get('n') for line in line_group): str.join raises
\* TypeError on an item that is None
join_line_numbers_raises(line_group) ==
    \E k \in DOMAIN line_group : line_group[k].n = NoAttr

\* the body of its loop over the line sets: print and return False (the print
\* raising when it cannot join the line numbers), or extend the combined lists
line_group_step(line_group, comb) ==
    IF ~metrically_responding_lines_polystrophic(line_group)
    THEN [outcome |-> IF join_line_numbers_raises(line_group)
                      THEN "TypeError" ELSE "False",
          combined |-> comb]
    ELSE LET line_accent_lists ==
                accentually_responding_syllables_of_lines_polystrophic(
                    line_group)
         IN
         IF line_accent_lists.kind = "False"
         THEN [outcome |-> "False", combined |-> comb]
         ELSE [outcome |-> "extend",
               combined |-> [i \in 1..3 |->
                                comb[i] \o line_accent_lists.lists[i]]]

-----------------------------------------------------------------------------
(* 3) COMPATIBILITY OF MELODIC CONTOURS *)

\* grc_utils.vowel on the characters of the model
Vowels == {"a", "a_acute", "a_grave", "a_circ"}
vowel(ch) == ch \in Vowels

SetMax(S) == CHOOSE x \in S : \A y \in S : y <= x

\* f(x), with x computed once however often f uses it
Bind(x, f(_)) == CHOOSE r \in {f(v) : v \in {x}} : TRUE

\* a space right before the first vowel of the text (text None counts as "")
space_before(syll) ==
    LET text == syll.text
        vowels == {i \in 1..Len(text) : vowel(text[i])}
    IN
    IF vowels = {} THEN FALSE
    ELSE SetMin(vowels) > 1 /\ text[SetMin(vowels) - 1] = " "

\* a space right after the last vowel of the text
space_after(syll) ==
    LET text == syll.text
        vowels == {i \in 1..Len(text) : vowel(text[i])}
    IN
    IF vowels = {} THEN FALSE
    ELSE SetMax(vowels) < Len(text) /\ text[SetMax(vowels) + 1] = " "

\* grc_utils.is_enclitic and is_proclitic on the texts of the model
Enclitics == {<<"t", "e">>}
Proclitics == {<<"o">>}
is_enclitic(text) == text \in Enclitics
is_proclitic(text) == text \in Proclitics

\* word_end at syllable i, where it can be evaluated: next_syll is the
\* syllable after i, or at the last syllable what the turn before left in it
word_end(syllables, i) ==
    LET s == syllables[i]
        next_syll == IF i + 1 <= Len(syllables) THEN syllables[i + 1]
                     ELSE syllables[i]
    IN space_after(s) \/ s.tail = " " \/ space_before(next_syll)

\* One turn of get_contours_line's loop at syllable i. st holds contours,
\* pre_accent and last_contour. The text <<>> is the text None of a <syll>
\* without text. next_syll is assigned only when a syllable follows: at the
\* last syllable it still holds what the turn before assigned (the last
\* syllable itself), and in a line of one syllable it is unbound.
contour_step(syllables, i, st) ==
    LET s == syllables[i]
        has_next == i + 1 <= Len(syllables)
        is_first_res == has_next /\ syllables[i + 1].resolution
        next_bound == has_next \/ i > 1
        tail_space == s.tail = " "
        raises_unbound == ~space_after(s) /\ ~tail_space /\ ~next_bound
        at_word_end == word_end(syllables, i)
        pre1 == IF is_first_res /\ at_word_end THEN TRUE ELSE st.pre_accent
        enclitic_fix ==
            /\ s.text # <<>> /\ is_enclitic(s.text) /\ ~is_proclitic(s.text)
            /\ st.contours # <<>>
            /\ st.contours[Len(st.contours)] = "N"
        contours1 ==
            IF enclitic_fix
            THEN [st.contours EXCEPT ![Len(st.contours)] = st.last_contour]
            ELSE st.contours
        pre2 == IF enclitic_fix THEN FALSE ELSE pre1
        accented ==
            \E ch \in Range(s.text) :
                ch \in AccentChars("acute") \cup AccentChars("circumflex")
        contour1 ==
            IF accented THEN (IF pre2 THEN "DN-A" ELSE "DN")
            ELSE IF pre2 THEN "UP"
            ELSE "DN"
        pre3 == IF accented /\ pre2 THEN FALSE ELSE pre2
        last_contour1 == IF at_word_end THEN contour1 ELSE st.last_contour
        contour2 == IF at_word_end THEN "N" ELSE contour1
        pre4 == IF at_word_end THEN TRUE ELSE pre3
        proclitic == s.text # <<>> /\ is_proclitic(s.text)
        raises_type == ~proclitic /\ s.text = <<>>
        grave == \E ch \in Range(s.text) : ch \in AccentChars("grave")
        contour3 == IF proclitic \/ grave THEN "UP-G" ELSE contour2
    IN
    IF raises_unbound
    THEN [kind |-> "UnboundLocalError", contours |-> st.contours,
          pre_accent |-> st.pre_accent, last_contour |-> st.last_contour]
    ELSE IF raises_type
    THEN [kind |-> "TypeError", contours |-> st.contours,
          pre_accent |-> st.pre_accent, last_contour |-> st.last_contour]
    ELSE [kind |-> "ok", contours |-> Append(contours1, contour3),
          pre_accent |-> pre4, last_contour |-> last_contour1]

RECURSIVE contour_loop(_, _, _)
contour_loop(syllables, i, st) ==
    IF i > Len(syllables) \/ st.kind # "ok" THEN st
    ELSE Bind(contour_step(syllables, i, st),
              LAMBDA next_st : contour_loop(syllables, i + 1, next_st))

\* the contours of a line, or the exception that ends the call
get_contours_line(l_element) ==
    contour_loop(l_element.sylls, 1,
                 [kind |-> "ok", contours |-> <<>>, pre_accent |-> TRUE,
                  last_contour |-> ""])

RECURSIVE merged_syllables(_, _)
\* the number of entries of merged_syllables from index i on
merged_syllables(syllables, i) ==
    IF i > Len(syllables) THEN 0
    ELSE IF syllables[i].resolution /\ i + 1 <= Len(syllables)
            /\ syllables[i + 1].resolution
    THEN 1 + merged_syllables(syllables, i + 2)
    ELSE 1 + merged_syllables(syllables, i + 1)

\* an entry of a position list: a contour, or a list of contours
PlainEntry(contour) == [list |-> FALSE, items |-> <<contour>>]

NoPositions == [kind |-> "ValueError", positions |-> <<>>]

\* all_contours_line after its check of metrical responsion
grouped_contours(xml_lines, contours_per_line) ==
    LET raised == {k \in DOMAIN xml_lines : contours_per_line[k].kind # "ok"}
        mismatched_lines ==
            {k \in DOMAIN xml_lines :
                merged_syllables(xml_lines[k].sylls, 1)
                    # merged_syllables(xml_lines[1].sylls, 1)}
    IN
    IF raised # {}
    THEN [kind |-> contours_per_line[SetMin(raised)].kind,
          positions |-> <<>>]
    ELSE IF mismatched_lines # {} THEN NoPositions
    ELSE [kind |-> "ok",
          positions |->
             [p \in ZipPositions([k \in DOMAIN xml_lines |->
                                     contours_per_line[k].contours]) |->
                 [k \in DOMAIN xml_lines |->
                     PlainEntry(contours_per_line[k].contours[p])]]]

\* the position lists, or the exception that ends the call
all_contours_line(xml_lines) ==
    IF ~metrically_responding_lines_polystrophic(xml_lines) THEN NoPositions
    ELSE Bind([k \in DOMAIN xml_lines |-> get_contours_line(xml_lines[k])],
              LAMBDA contours_per_line :
                  grouped_contours(xml_lines, contours_per_line))

UpContours == {"UP", "UP-G", "N"}
DownContours == {"DN", "DN-A", "N"}

all_resolved(position) == \A k \in DOMAIN position : position[k].list

\* what one strophe's entry appends to up
appended_to_up(entry, resolved) ==
    IF entry.list
    THEN IF resolved
         THEN Cardinality({x \in DOMAIN entry.items :
                              entry.items[x] \in UpContours})
         ELSE IF entry.items[1] = "N" /\ entry.items[2] = "N" THEN 1
         ELSE IF Range(entry.items) \subseteq UpContours THEN 1
         ELSE 0
    ELSE IF entry.items[1] \in UpContours THEN 1 ELSE 0

\* what one strophe's entry appends to down
appended_to_down(entry, resolved) ==
    IF entry.list
    THEN IF resolved
         THEN Cardinality({x \in DOMAIN entry.items :
                              entry.items[x] \notin UpContours
                                 /\ entry.items[x] \in DownContours})
         ELSE IF entry.items[1] = "N" /\ entry.items[2] = "N" THEN 1
         ELSE IF Range(entry.items) \subseteq UpContours THEN 0
         ELSE IF Range(entry.items) \subseteq DownContours THEN 1
         ELSE 0
    ELSE IF entry.items[1] \notin UpContours
              /\ entry.items[1] \in DownContours
    THEN 1 ELSE 0

unknown_contour(entry, resolved) ==
    IF entry.list
    THEN resolved /\ \E x \in DOMAIN entry.items :
                        entry.items[x] \notin UpContours \cup DownContours
    ELSE entry.items[1] \notin UpContours \cup DownContours

\* Fraction: lowest terms, positive denominator
RECURSIVE GCD(_, _)
GCD(a, b) == IF b = 0 THEN a ELSE GCD(b, a % b)

Abs(x) == IF x < 0 THEN 0 - x ELSE x
Max(a, b) == IF a >= b THEN a ELSE b

F(numerator, denominator) ==
    LET g == GCD(Abs(numerator), denominator) IN
    [num |-> numerator \div g, den |-> denominator \div g]

FractionSub(x, y) == F(x.num * y.den - y.num * x.den, x.den * y.den)
FractionDiv(x, y) == F(x.num * y.den, x.den * y.num)
FractionLeq(x, y) == x.num * y.den <= y.num * x.den

\* len(up) and len(down) at one position
position_buckets(position) ==
    [up |-> SeqSum([k \in DOMAIN position |->
                       appended_to_up(position[k], all_resolved(position))]),
     down |-> SeqSum([k \in DOMAIN position |->
                       appended_to_down(position[k],
                                        all_resolved(position))])]

\* F(max_len, len(position))
position_compatibility_ratio(position) ==
    F(Max(position_buckets(position).up, position_buckets(position).down),
      Len(position))

\* the ratios of a line set (fractional=True), with the bucket sizes behind
\* them, or the exception that ends the call
compatibility_ratios_of(xml_lines, position_lists) ==
    IF position_lists.kind # "ok"
    THEN [kind |-> position_lists.kind, ratios |-> <<>>, buckets |-> <<>>]
    ELSE IF \E p \in DOMAIN position_lists.positions :
               \E k \in DOMAIN xml_lines :
                  unknown_contour(position_lists.positions[p][k],
                      all_resolved(position_lists.positions[p]))
    THEN [kind |-> "ValueError", ratios |-> <<>>, buckets |-> <<>>]
    ELSE [kind |-> "ok",
          ratios |-> [p \in DOMAIN position_lists.positions |->
                        position_compatibility_ratio(
                            position_lists.positions[p])],
          buckets |-> [p \in DOMAIN position_lists.positions |->
                         position_buckets(position_lists.positions[p])]]

_compatibility_line(xml_lines) ==
    Bind(all_contours_line(xml_lines),
         LAMBDA position_lists :
             compatibility_ratios_of(xml_lines, position_lists))

\* the lines compatibility_canticum collects at line_pos: of the strophes that
\* have that many lines
responding_lines_at(ss, pos) ==
    LET having == SelectSeq(ss, LAMBDA strophe : pos <= Len(strophe.lines))
    IN [k \in DOMAIN having |-> having[k].lines[pos]]

\* the nested normalize of compatibility_canticum, n == len(strophes)
normalize(line_scores, n) ==
    LET min_ratio == F((n \div 2) + (n % 2), n)
        span == FractionSub(F(1, 1), min_ratio)
    IN [p \in DOMAIN line_scores |->
           FractionDiv(FractionSub(line_scores[p], min_ratio), span)]

-----------------------------------------------------------------------------
(* Responsion checks and fixes of the compile step *)

\* An xml text is the strophes of its root element, in document order, and
\* whether the text opens with an XML declaration (the files of the earlier
\* steps are written with xml_declaration=True).
XmlText(declaration, root) == [declaration |-> declaration, root |-> root]

\* etree.fromstring(xml_text.encode()): the root element
fromstring(text) == text.root

\* etree.tostring(root, encoding='unicode'): the element alone, without
\* declaration
tostring(root) == XmlText(FALSE, root)

\* root.xpath('//strophe[@responsion]') with s.get('responsion') == id
group_strophes(root, responsion_id) ==
    SelectSeq(root, LAMBDA strophe : strophe.responsion = responsion_id)

\* the keys of responsion_groups, in the order of their first strophe
responsion_ids(root) ==
    LET ids == {root[k].responsion : k \in DOMAIN root} \ {NoAttr}
        first(id) == SetMin({k \in DOMAIN root : root[k].responsion = id})
        rank(id) == Cardinality({other \in ids : first(other) < first(id)})
    IN [g \in 1..Cardinality(ids) |-> CHOOSE id \in ids : rank(id) = g - 1]

\* [strophe.findall('.//l') for strophe in strophes]
lines_of_strophes(group) == [k \in DOMAIN group |-> group[k].lines]

\* "u" for light, the long mark for everything else
metre_of(line) ==
    LET canonical == canonical_sylls(line) IN
    [j \in DOMAIN canonical |->
        IF canonical[j] = "light" THEN "u" ELSE "-"]

\* diff_indices of one strophe against the first: the positions (counted
\* from 1 here, from 0 in the code) where the two metres differ, as far as zip
\* pairs them
diff_indices(first_strophe_metre, strophe_metre) ==
    {j \in ZipPositions(<<first_strophe_metre, strophe_metre>>) :
        first_strophe_metre[j] # strophe_metre[j]}

\* the diff_indices_list assert_responsion builds for a line set
diff_indices_of(line_set) ==
    [i \in 1..(Len(line_set) - 1) |->
        diff_indices(metre_of(line_set[1]), metre_of(line_set[i + 1]))]

\* [l.get('n', 'unknown') for l in lines]
line_numbers(line_set) ==
    [k \in DOMAIN line_set |->
        IF line_set[k].n = NoAttr THEN "unknown" ELSE line_set[k].n]

RECURSIVE position_to_syll(_, _)
\* position_to_syll from syllable i on: per position the indices of its one
\* syllable or of the two syllables of its resolution pair
position_to_syll(sylls, i) ==
    IF i > Len(sylls) THEN <<>>
    ELSE IF i < Len(sylls) /\ sylls[i].resolution /\ sylls[i + 1].resolution
    THEN <<{i, i + 1}>> \o position_to_syll(sylls, i + 2)
    ELSE <<{i}>> \o position_to_syll(sylls, i + 1)

\* a fix that marks the first of the problem positions only
set_anceps_at_first(line, problem_positions) ==
    LET targets_at == position_to_syll(line.sylls, 1)
        first == problem_positions \cap {SetMin(problem_positions)}
        targets == UNION {targets_at[q] : q \in first \cap DOMAIN targets_at}
    IN Line(line.n,
            [i \in DOMAIN line.sylls |->
                IF i \in targets
                THEN [line.sylls[i] EXCEPT !.anceps = TRUE]
                ELSE line.sylls[i]])

\* the line with anceps='True' set at the problem positions it has
set_anceps(line, problem_positions) ==
    LET targets_at == position_to_syll(line.sylls, 1)
        targets == UNION {targets_at[q] :
                             q \in problem_positions \cap DOMAIN targets_at}
    IN Line(line.n,
            [i \in DOMAIN line.sylls |->
                IF i \in targets
                THEN [line.sylls[i] EXCEPT !.anceps = TRUE]
                ELSE line.sylls[i]])

\* the root after the loop over group_strophes: in the strophes of the
\* group, every line whose n is among line_numbers is fixed
fixed_root(root, responsion_id, numbers, problem_positions) ==
    [k \in DOMAIN root |->
        IF root[k].responsion = responsion_id
        THEN Strophe(root[k].responsion,
                 [l \in DOMAIN root[k].lines |->
                     IF root[k].lines[l].n \in Range(numbers)
                     THEN set_anceps(root[k].lines[l], problem_positions)
                     ELSE root[k].lines[l]])
        ELSE root[k]]

\* autofix_responsion without its check of the lengths
autofix_unchecked(text, responsion_id, numbers, diff_lists, line_set) ==
    LET all_diffs == UNION {diff_lists[i] : i \in DOMAIN diff_lists}
    IN IF all_diffs = {}
       THEN [success |-> FALSE, fixed_xml |-> text]
       ELSE [success |-> TRUE,
             fixed_xml |-> tostring(fixed_root(fromstring(text),
                                               responsion_id, numbers,
                                               all_diffs))]

\* autofix_responsion: (success, fixed_xml)
autofix_responsion(text, responsion_id, numbers, diff_lists, line_set) ==
    LET lengths == {Len(canonical_sylls(line_set[k])) : k \in DOMAIN line_set}
        all_diffs == UNION {diff_lists[i] : i \in DOMAIN diff_lists}
    IN IF Cardinality(lengths) > 1
       THEN [success |-> FALSE, fixed_xml |-> text]
       ELSE IF all_diffs = {}
       THEN [success |-> FALSE, fixed_xml |-> text]
       ELSE [success |-> TRUE,
             fixed_xml |-> tostring(fixed_root(fromstring(text),
                                               responsion_id, numbers,
                                               all_diffs))]

\* check_line_responsion: its first return value
check_line_responsion(line_set) ==
    IF Len(line_set) < 2 THEN TRUE
    ELSE metrically_responding_lines_polystrophic(line_set)

\* total_buggy_lines set to the count of the last group
total_of_last_group(total, buggy) == buggy

\* total_buggy_lines after a group
total_after_group(total, buggy) ==
    IF buggy > 0 THEN total + buggy ELSE total

-----------------------------------------------------------------------------
(* Inputs: bounded sets of lines and of line sets *)

\* the syllables of the single-line specification: every combination of the
\* flags on a light syllable, the flags that leave a heavy syllable heavy or
\* free, and a syllable without a usable weight
CanonKinds ==
    {Syll("light", a, r, b, PlainText) : a \in BOOLEAN, r \in BOOLEAN,
                                          b \in BOOLEAN}
    \cup {Syll("heavy", a, r, FALSE, PlainText) : a \in BOOLEAN,
                                                   r \in BOOLEAN}
    \cup {Syll("", FALSE, r, FALSE, PlainText) : r \in BOOLEAN}

\* the syllables of the line-set specification
RespKinds ==
    {Syll("heavy", FALSE, FALSE, FALSE, PlainText),
     Syll("light", FALSE, FALSE, FALSE, PlainText),
     Syll("light", TRUE, FALSE, FALSE, PlainText),
     Syll("light", FALSE, TRUE, FALSE, PlainText)}

\* the syllables of the all-single specification: heavy syllables whose text
\* has no accent, an acute (precomposed or combining), a grave, a circumflex,
\* an acute and a circumflex, or is missing
SingleKinds ==
    {Syll("heavy", FALSE, FALSE, FALSE, t) :
        t \in {PlainText, <<"t", "a_acute">>, <<"a", "+acute">>,
               <<"a_grave">>, <<"a_circ">>, <<"a_acute", "a_circ">>, <<>>}}

\* the syllables of the single/double specification
AccentKinds ==
    {Syll("heavy", FALSE, FALSE, FALSE, PlainText),
     Syll("heavy", FALSE, FALSE, FALSE, <<"t", "a_acute">>),
     Syll("light", TRUE, FALSE, FALSE, <<"l", "a_acute">>),
     Syll("light", FALSE, TRUE, FALSE, <<"r", "a_circ">>),
     Syll("light", FALSE, TRUE, FALSE, <<"r", "a_acute">>)}

LineNumbers == <<"1", "2", "3", "4", "5", "6">>

\* the n attributes of a line set: every line its own number, or no line
\* numbered
Numberings == {"numbered", "unnumbered"}

WithNumbering(ls, numbering) ==
    [k \in DOMAIN ls |->
        Line(IF numbering = "numbered" THEN ls[k].n ELSE NoAttr, ls[k].sylls)]

\* the ways to give n lines at most total syllables
LenTuples(n, total) == {lt \in [1..n -> 0..total] : SeqSum(lt) <= total}

RECURSIVE Offset(_, _)
Offset(lt, k) == IF k = 1 THEN 0 ELSE Offset(lt, k - 1) + lt[k - 1]

\* the lines with lengths lt whose syllables, in order, are flat
SplitLines(flat, lt) ==
    [k \in DOMAIN lt |->
        Line(LineNumbers[k],
             SubSeq(flat, Offset(lt, k) + 1, Offset(lt, k) + lt[k]))]

\* lines is a set of minLines..maxLines lines over kinds with at most total
\* syllables in all
LinesAmong(kinds, minLines, maxLines, total) ==
    \E n \in minLines..maxLines :
        \E lt \in LenTuples(n, total) :
            \E flat \in [1..SeqSum(lt) -> kinds] :
                lines = SplitLines(flat, lt)

\* the same, with either numbering
NumberedLinesAmong(kinds, minLines, maxLines, total) ==
    \E n \in minLines..maxLines :
        \E lt \in LenTuples(n, total) :
            \E flat \in [1..SeqSum(lt) -> kinds] :
                \E numbering \in Numberings :
                    lines = WithNumbering(SplitLines(flat, lt), numbering)

\* the syllables of the strophe specification
StropheKinds ==
    {Syll("heavy", FALSE, FALSE, FALSE, <<"t", "a_acute">>),
     Syll("light", FALSE, FALSE, FALSE, PlainText)}

\* the responsion ids of a group: one id, or another id on the last strophe
ResponsionChoices == {"same", "last_differs"}

\* strophes is a group of 1..maxStrophes strophes over kinds with at most
\* totalLines lines and totalSylls syllables in all, with either numbering
StrophesAmong(kinds, maxStrophes, totalLines, totalSylls) ==
    \E n \in 1..maxStrophes :
      \E lc \in LenTuples(n, totalLines) :
        \E lt \in LenTuples(SeqSum(lc), totalSylls) :
          \E flat \in [1..SeqSum(lt) -> kinds] :
            \E rid \in ResponsionChoices :
              \E numbering \in Numberings :
                strophes =
                  [k \in 1..n |->
                    Strophe(IF rid = "last_differs" /\ k = n
                            THEN "r2" ELSE "r1",
                            SubSeq(WithNumbering(SplitLines(flat, lt),
                                                 numbering),
                                   Offset(lc, k) + 1, Offset(lc, k) + lc[k]))]

\* the ways to give n items at least one and at most total parts in all
PositiveLenTuples(n, total) ==
    {lt \in [1..n -> 1..total] : SeqSum(lt) <= total}

\* strophes is the root of a text of 1..maxStrophes strophes, every strophe
\* with a line and every line with a syllable (the validator rejects a text
\* with an empty line), at most totalLines lines and totalSylls syllables in
\* all, with either numbering
TextAmong(kinds, maxStrophes, totalLines, totalSylls) ==
    \E n \in 1..maxStrophes :
      \E lc \in PositiveLenTuples(n, totalLines) :
        \E lt \in PositiveLenTuples(SeqSum(lc), totalSylls) :
          \E flat \in [1..SeqSum(lt) -> kinds] :
            \E rid \in ResponsionChoices :
              \E numbering \in Numberings :
                strophes =
                  [k \in 1..n |->
                    Strophe(IF rid = "last_differs" /\ k = n
                            THEN "r2" ELSE "r1",
                            SubSeq(WithNumbering(SplitLines(flat, lt),
                                                 numbering),
                                   Offset(lc, k) + 1, Offset(lc, k) + lc[k]))]

\* the syllables of the compatibility specification: no accent, acute, no
\* accent before a word end, and grave on an anceps
CompKinds ==
    {Syll("heavy", FALSE, FALSE, FALSE, PlainText),
     Syll("heavy", FALSE, FALSE, FALSE, <<"t", "a_acute">>),
     [Syll("heavy", FALSE, FALSE, FALSE, PlainText) EXCEPT !.tail = " "],
     Syll("heavy", TRUE, FALSE, FALSE, <<"t", "a_grave">>)}

\* strophes is a canticum of 0..maxStrophes strophes with at most totalLines
\* lines in all, every line of the same number of syllables, at most lineLen
\* and at most totalSylls in all
CanticumAmong(kinds, maxStrophes, totalLines, lineLen, totalSylls) ==
    \E n \in 0..maxStrophes :
      \E lc \in LenTuples(n, totalLines) :
        \E len \in 0..lineLen :
          /\ SeqSum(lc) * len <= totalSylls
          /\ SeqSum(lc) = 0 => len = 0
          /\ \E flat \in [1..(SeqSum(lc) * len) -> kinds] :
                strophes =
                  [k \in 1..n |->
                    Strophe("r1",
                            SubSeq(SplitLines(flat,
                                       [j \in 1..SeqSum(lc) |-> len]),
                                   Offset(lc, k) + 1, Offset(lc, k) + lc[k]))]

-----------------------------------------------------------------------------
(* The calls *)

NoXml == [declaration |-> FALSE, root |-> <<>>]
NoAutofix == [success |-> FALSE, fixed_xml |-> NoXml]

\* the compile step is not run
NoCompile ==
    /\ xml_input = NoXml
    /\ xml_text = NoXml
    /\ attempt_autofix = TRUE
    /\ group_pos = 0
    /\ line_index = 0
    /\ group_lines = <<>>
    /\ buggy_lines = 0
    /\ total_buggy_lines = 0
    /\ diff_indices_list = <<>>
    /\ autofix_result = NoAutofix
    /\ perfect_responsion = FALSE
    /\ checked = {}

\* the metric is not computed
NoMetric == stat_dictionary = <<>>

\* the baseline is not made
NoShape ==
    /\ shape_id = NoAttr
    /\ row_lengths = <<>>

\* None
None == "None"

\* None where a line element is expected
NoLine == [none |-> TRUE]

\* no corpus is loaded
NoCorpus ==
    /\ cached_corpus = <<>>
    /\ external_corpus = [exists |-> FALSE, lines |-> <<>>]
    /\ exclude_file = None

\* no sample is being made
NoLoop ==
    /\ strophe_scheme = <<>>
    /\ sample_size = 0
    /\ line_idx = 0
    /\ attempts = 0
    /\ position_lines = <<>>
    /\ needed = 0
    /\ lines_by_position = <<>>

\* no line is being sampled
NoSample ==
    /\ used_metrical_positions = {}
    /\ used_responsions_per_position = <<>>
    /\ length = 0
    /\ amount = 0
    /\ tried = <<>>
    /\ sample_line = NoLine

NoBaseline == NoShape /\ NoCorpus /\ NoLoop /\ NoSample

InitOutputs ==
    /\ strophes = <<>>
    /\ canon = <<>>
    /\ units = <<>>
    /\ responds = FALSE
    /\ pairwise = <<>>
    /\ line_pos = 0
    /\ combined = NoLists
    /\ result = NoResult
    /\ buckets = <<>>
    /\ ratios = <<>>
    /\ normalized_canticum = <<>>
    /\ line_contours = <<>>
    /\ all_contours = <<>>
    /\ NoMetric
    /\ NoBaseline
    /\ NoCompile

\* canonical_sylls(line) for every line of the set
CallCanonicalSylls ==
    /\ pc = "canonical_sylls"
    /\ canon' = [k \in DOMAIN lines |-> canonical_sylls(lines[k])]
    /\ pc' = "build_units"
    /\ UNCHANGED <<strophes, lines, units, responds, pairwise, line_pos,
                   combined, result>>
    /\ UNCHANGED <<buckets, ratios, normalized_canticum>>
    /\ UNCHANGED <<contourVars, compileVars, metricVars, baselineVars>>

\* build_units_for_accent(line) for every line of the set
CallBuildUnits ==
    /\ pc = "build_units"
    /\ units' = [k \in DOMAIN lines |-> build_units_for_accent(lines[k])]
    /\ pc' = "metre"
    /\ UNCHANGED <<strophes, lines, canon, responds, pairwise, line_pos,
                   combined, result>>
    /\ UNCHANGED <<buckets, ratios, normalized_canticum>>
    /\ UNCHANGED <<contourVars, compileVars, metricVars, baselineVars>>

\* metrically_responding_lines_polystrophic(*lines)
CallPolystrophic ==
    /\ pc = "metre"
    /\ responds' = metrically_responding_lines_polystrophic(lines)
    /\ pc' = "pairs"
    /\ UNCHANGED <<strophes, lines, canon, units, pairwise, line_pos,
                   combined, result>>
    /\ UNCHANGED <<buckets, ratios, normalized_canticum>>
    /\ UNCHANGED <<contourVars, compileVars, metricVars, baselineVars>>

\* metrically_responding_lines(a, b) for every two lines of the set
CallPairwise ==
    /\ pc = "pairs"
    /\ pairwise' = [a \in DOMAIN lines |-> [b \in DOMAIN lines |->
                        metrically_responding_lines(lines[a], lines[b])]]
    /\ pc' = "paired"
    /\ UNCHANGED <<strophes, lines, canon, units, responds, line_pos,
                   combined, result>>
    /\ UNCHANGED <<buckets, ratios, normalized_canticum>>
    /\ UNCHANGED <<contourVars, compileVars, metricVars, baselineVars>>

\* one line, every kind of syllable
InitCanon ==
    /\ LinesAmong(CanonKinds, 1, 1, MaxCanonSylls)
    /\ pc = "canonical_sylls"
    /\ InitOutputs

NextCanon == CallCanonicalSylls \/ CallBuildUnits

SpecCanon == InitCanon /\ [][NextCanon]_vars

\* two or more lines
InitResp ==
    /\ LinesAmong(RespKinds, 2, MaxLines, MaxSylls)
    /\ pc = "canonical_sylls"
    /\ InitOutputs

NextResp ==
    CallCanonicalSylls \/ CallBuildUnits \/ CallPolystrophic \/ CallPairwise

SpecResp == InitResp /\ [][NextResp]_vars


\* accentually_responding_syllables_of_lines_polystrophic(*lines); canon,
\* responds and units are the values the call computes on its way
CallAccentLines ==
    /\ pc = "accent"
    /\ canon' = [k \in DOMAIN lines |-> canonical_sylls(lines[k])]
    /\ responds' = metrically_responding_lines_polystrophic(lines)
    /\ units' = [k \in DOMAIN lines |-> build_units_for_accent(lines[k])]
    /\ result' = accentually_responding_syllables_of_lines_polystrophic(lines)
    /\ pc' = "done"
    /\ UNCHANGED <<strophes, lines, pairwise, line_pos, combined>>
    /\ UNCHANGED <<buckets, ratios, normalized_canticum>>
    /\ UNCHANGED <<contourVars, compileVars, metricVars, baselineVars>>

\* lines of single syllables with every kind of accent
InitSingles ==
    /\ NumberedLinesAmong(SingleKinds, 2, MaxLines, MaxSylls)
    /\ pc = "accent"
    /\ InitOutputs

NextAccent == CallAccentLines

SpecSingles == InitSingles /\ [][NextAccent]_vars

\* lines of single syllables and resolution pairs
InitAccent ==
    /\ NumberedLinesAmong(AccentKinds, 2, MaxLines, MaxSylls)
    /\ pc = "accent"
    /\ InitOutputs

SpecAccent == InitAccent /\ [][NextAccent]_vars

\* accentually_responding_syllables_of_strophes_polystrophic(*strophes):
\* the checks before the loop
StrophesStart ==
    /\ pc = "strophes"
    /\ IF Len(strophes) < 2
       THEN /\ pc' = "strophes_done"
            /\ result' = Raised("ValueError")
            /\ UNCHANGED <<line_pos, combined>>
       ELSE IF strophes_precheck(strophes)
       THEN /\ pc' = "strophes_loop"
            /\ line_pos' = 1
            /\ combined' = NoLists
            /\ UNCHANGED result
       ELSE /\ pc' = "strophes_done"
            /\ result' = ReturnFalse
            /\ UNCHANGED <<line_pos, combined>>
    /\ UNCHANGED <<strophes, lines, canon, units, responds, pairwise>>
    /\ UNCHANGED <<buckets, ratios, normalized_canticum>>
    /\ UNCHANGED <<contourVars, compileVars, metricVars, baselineVars>>

\* one line set fails: the function ends with False, or with the exception
\* of its print
StrophesLineGroupFails ==
    /\ pc = "strophes_loop"
    /\ line_pos <= Len(strophes[1].lines)
    /\ line_group_step(LineGroup(strophes, line_pos), combined).outcome
          # "extend"
    /\ lines' = LineGroup(strophes, line_pos)
    /\ result' =
          IF line_group_step(LineGroup(strophes, line_pos), combined).outcome
               = "TypeError"
          THEN Raised("TypeError") ELSE ReturnFalse
    /\ pc' = "strophes_done"
    /\ UNCHANGED <<strophes, canon, units, responds, pairwise, line_pos,
                   combined>>
    /\ UNCHANGED <<buckets, ratios, normalized_canticum>>
    /\ UNCHANGED <<contourVars, compileVars, metricVars, baselineVars>>

\* one line set passes: its matches are added to the combined lists
StrophesLineGroupPasses ==
    /\ pc = "strophes_loop"
    /\ line_pos <= Len(strophes[1].lines)
    /\ line_group_step(LineGroup(strophes, line_pos), combined).outcome
          = "extend"
    /\ lines' = LineGroup(strophes, line_pos)
    /\ combined' =
          line_group_step(LineGroup(strophes, line_pos), combined).combined
    /\ line_pos' = line_pos + 1
    /\ UNCHANGED <<strophes, pc, canon, units, responds, pairwise, result>>
    /\ UNCHANGED <<buckets, ratios, normalized_canticum>>
    /\ UNCHANGED <<contourVars, compileVars, metricVars, baselineVars>>

\* the loop is over: return the combined lists
StrophesReturn ==
    /\ pc = "strophes_loop"
    /\ line_pos > Len(strophes[1].lines)
    /\ result' = ReturnLists(combined)
    /\ pc' = "strophes_done"
    /\ UNCHANGED <<strophes, lines, canon, units, responds, pairwise,
                   line_pos, combined>>
    /\ UNCHANGED <<buckets, ratios, normalized_canticum>>
    /\ UNCHANGED <<contourVars, compileVars, metricVars, baselineVars>>

\* a group of strophes, handed to the strophe-level function or one of its
\* line sets handed to the line-level function
InitStrophes ==
    /\ StrophesAmong(StropheKinds, MaxLines, MaxStropheLines, MaxStropheSylls)
    /\ \/ /\ pc = "strophes"
          /\ lines = <<>>
       \/ /\ pc = "accent"
          /\ \E p \in ZipPositions([k \in DOMAIN strophes |->
                                      strophes[k].lines]) :
                lines = LineGroup(strophes, p)
    /\ canon = <<>>
    /\ units = <<>>
    /\ responds = FALSE
    /\ pairwise = <<>>
    /\ line_pos = 0
    /\ combined = NoLists
    /\ result = NoResult
    /\ buckets = <<>>
    /\ ratios = <<>>
    /\ normalized_canticum = <<>>
    /\ line_contours = <<>>
    /\ all_contours = <<>>
    /\ NoMetric
    /\ NoBaseline
    /\ NoCompile

NextStrophes ==
    \/ CallAccentLines
    \/ StrophesStart
    \/ StrophesLineGroupFails
    \/ StrophesLineGroupPasses
    \/ StrophesReturn

SpecStrophes == InitStrophes /\ [][NextStrophes]_vars

\* accentually_responding_syllables_of_strophe_pair(strophe, antistrophe),
\* strophes being the two arguments: up to the loop over the line pairs
PairStart ==
    /\ pc = "pair"
    /\ IF strophe_pair_precheck(strophes[1], strophes[2])
       THEN /\ pc' = "pair_loop"
            /\ line_pos' = 1
            /\ combined' = NoLists
            /\ UNCHANGED result
       ELSE /\ pc' = "pair_done"
            /\ result' = ReturnFalse
            /\ UNCHANGED <<line_pos, combined>>
    /\ UNCHANGED <<strophes, lines, canon, units, responds, pairwise>>
    /\ UNCHANGED <<buckets, ratios, normalized_canticum>>
    /\ UNCHANGED <<contourVars, compileVars, metricVars, baselineVars>>

\* one line pair is compared and fails: the function returns False
PairLineFails ==
    /\ pc = "pair_loop"
    /\ line_pos <= Len(strophes[1].lines)
    /\ line_pair_step(strophes[1].lines[line_pos],
                      strophes[2].lines[line_pos], combined).outcome = "False"
    /\ lines' = LineGroup(strophes, line_pos)
    /\ result' = ReturnFalse
    /\ pc' = "pair_done"
    /\ UNCHANGED <<strophes, canon, units, responds, pairwise, line_pos,
                   combined>>
    /\ UNCHANGED <<buckets, ratios, normalized_canticum>>
    /\ UNCHANGED <<contourVars, compileVars, metricVars, baselineVars>>

\* one line pair is compared and passes: its matches are added
PairLinePasses ==
    /\ pc = "pair_loop"
    /\ line_pos <= Len(strophes[1].lines)
    /\ line_pair_step(strophes[1].lines[line_pos],
                      strophes[2].lines[line_pos], combined).outcome = "extend"
    /\ lines' = LineGroup(strophes, line_pos)
    /\ combined' =
          line_pair_step(strophes[1].lines[line_pos],
                         strophes[2].lines[line_pos], combined).combined
    /\ line_pos' = line_pos + 1
    /\ UNCHANGED <<strophes, pc, canon, units, responds, pairwise, result>>
    /\ UNCHANGED <<buckets, ratios, normalized_canticum>>
    /\ UNCHANGED <<contourVars, compileVars, metricVars, baselineVars>>

\* the loop is over: return combined_accent_lists
PairReturn ==
    /\ pc = "pair_loop"
    /\ line_pos > Len(strophes[1].lines)
    /\ result' = ReturnLists(combined)
    /\ pc' = "pair_done"
    /\ UNCHANGED <<strophes, lines, canon, units, responds, pairwise,
                   line_pos, combined>>
    /\ UNCHANGED <<buckets, ratios, normalized_canticum>>
    /\ UNCHANGED <<contourVars, compileVars, metricVars, baselineVars>>

\* a strophe and an antistrophe, with the same responsion id or different ids
InitPair ==
    /\ StrophesAmong(AccentKinds, 2, MaxPairLines, MaxPairSylls)
    /\ Len(strophes) = 2
    /\ pc = "pair"
    /\ lines = <<>>
    /\ canon = <<>>
    /\ units = <<>>
    /\ responds = FALSE
    /\ pairwise = <<>>
    /\ line_pos = 0
    /\ combined = NoLists
    /\ result = NoResult
    /\ buckets = <<>>
    /\ ratios = <<>>
    /\ normalized_canticum = <<>>
    /\ line_contours = <<>>
    /\ all_contours = <<>>
    /\ NoMetric
    /\ NoBaseline
    /\ NoCompile

NextPair ==
    \/ PairStart
    \/ PairLineFails
    \/ PairLinePasses
    \/ PairReturn

SpecPair == InitPair /\ [][NextPair]_vars

\* count_all_accents_canticum(tree, responsion), ss being the strophes the
\* xpath finds: per accent, the syllables whose text has one of its characters
count_all_accents_canticum(ss) ==
    [i \in 1..3 |->
        SeqSum([k \in DOMAIN ss |->
            SeqSum([l \in DOMAIN ss[k].lines |->
                Cardinality({s \in DOMAIN ss[k].lines[l].sylls :
                    \E c \in DOMAIN normalize_word(ss[k].lines[l].sylls[s].text) :
                        normalize_word(ss[k].lines[l].sylls[s].text)[c]
                            \in AccentChars(AccentNames[i])})])])]

\* sum(len(dict) for dict in accent_maps[i])
accent_responsion_count(dicts) ==
    SeqSum([k \in DOMAIN dicts |-> Cardinality(DOMAIN dicts[k])])

\* count / total if total > 0 else 0, as the ratio of two integers
stat_of(count, total) ==
    IF total > 0 THEN [num |-> count, den |-> total]
    ELSE [num |-> 0, den |-> 1]

\* the stat_dictionary of accentual_responsion_metric_canticum
accentual_responsion_metric_canticum(ss, accent_maps) ==
    LET total_accent_sums == count_all_accents_canticum(ss)
        acute == accent_responsion_count(accent_maps[1])
        grave == accent_responsion_count(accent_maps[2])
        circumflex == accent_responsion_count(accent_maps[3])
    IN [acute |-> stat_of(acute, total_accent_sums[1]),
        grave |-> stat_of(grave, total_accent_sums[2]),
        circumflex |-> stat_of(circumflex, total_accent_sums[3]),
        acute_circumflex |->
            stat_of(acute + circumflex,
                    total_accent_sums[1] + total_accent_sums[3])]

\* accentual_responsion_metric_canticum after the call of
\* accentually_responding_syllables_of_strophes_polystrophic: its exception
\* goes on, False raises TypeError at accent_maps[0], the lists give the
\* stat_dictionary
MetricReturn ==
    /\ pc = "strophes_done"
    /\ IF result.kind = "lists"
       THEN /\ stat_dictionary' =
                  accentual_responsion_metric_canticum(strophes, result.lists)
            /\ UNCHANGED result
       ELSE /\ result' = IF result.kind = "False"
                         THEN Raised("TypeError") ELSE result
            /\ UNCHANGED stat_dictionary
    /\ pc' = "metric_done"
    /\ UNCHANGED <<strophes, lines, canon, units, responds, pairwise,
                   line_pos, combined>>
    /\ UNCHANGED <<buckets, ratios, normalized_canticum>>
    /\ UNCHANGED <<contourVars, compileVars, baselineVars>>

\* the syllables of the metric specification: heavy syllables without accent
\* and with an acute, and resolution syllables with an acute and with a
\* circumflex
MetricKinds ==
    {Syll("heavy", FALSE, FALSE, FALSE, PlainText),
     Syll("heavy", FALSE, FALSE, FALSE, <<"t", "a_acute">>),
     Syll("light", FALSE, TRUE, FALSE, <<"r", "a_acute">>),
     Syll("light", FALSE, TRUE, FALSE, <<"r", "a_circ">>)}

\* accentual_responsion_metric_canticum(xml_file, canticum), strophes being
\* the strophes of the canticum: they carry its responsion id
InitMetric ==
    /\ TextAmong(MetricKinds, MaxLines, MaxMetricLines, MaxMetricSylls)
    /\ \A k \in DOMAIN strophes : strophes[k].responsion = "r1"
    /\ pc = "strophes"
    /\ lines = <<>>
    /\ canon = <<>>
    /\ units = <<>>
    /\ responds = FALSE
    /\ pairwise = <<>>
    /\ line_pos = 0
    /\ combined = NoLists
    /\ result = NoResult
    /\ buckets = <<>>
    /\ ratios = <<>>
    /\ normalized_canticum = <<>>
    /\ line_contours = <<>>
    /\ all_contours = <<>>
    /\ NoMetric
    /\ NoBaseline
    /\ NoCompile

NextMetric ==
    \/ StrophesStart
    \/ StrophesLineGroupFails
    \/ StrophesLineGroupPasses
    \/ StrophesReturn
    \/ MetricReturn

SpecMetric == InitMetric /\ [][NextMetric]_vars

\* syll.text or "": the characters of the element's text
content_of(syll) ==
    syll.text \o (IF syll.tail = "" THEN <<>> ELSE <<syll.tail>>)

\* one turn of the loop of get_shape_canticum over the syllables of a line:
\* the state is line_sylls, buffer and prev_resolved
shape_step(st, syll) ==
    LET resolved == syll.resolution
        content == content_of(syll)
    IN
    IF st.prev_resolved /\ resolved
    THEN [st EXCEPT !.buffer = st.buffer \o content,
                    !.prev_resolved = resolved]
    ELSE [line_sylls |-> IF st.buffer # <<>>
                         THEN Append(st.line_sylls, st.buffer)
                         ELSE st.line_sylls,
          buffer |-> content,
          prev_resolved |-> resolved]

RECURSIVE shape_loop(_, _, _)
shape_loop(sylls, i, st) ==
    IF i > Len(sylls) THEN st
    ELSE shape_loop(sylls, i + 1, shape_step(st, sylls[i]))

\* the line_sylls of one line, after the last buffer is flushed
shape_line_sylls(line) ==
    LET st == shape_loop(line.sylls, 1,
                         [line_sylls |-> <<>>, buffer |-> <<>>,
                          prev_resolved |-> FALSE])
    IN IF st.buffer # <<>> THEN Append(st.line_sylls, st.buffer)
       ELSE st.line_sylls

\* root.find(".//strophe[@responsion='...']"): the strophes with the id, in
\* document order; find gives the first, or None
strophes_with(root, responsion_id) ==
    SelectSeq(root, LAMBDA s : s.responsion = responsion_id)

\* get_shape_canticum: row_lengths of the first strophe with the id
get_shape_canticum(root, responsion_id) ==
    LET first_strophe == strophes_with(root, responsion_id)[1]
    IN [l \in DOMAIN first_strophe.lines |->
           Len(shape_line_sylls(first_strophe.lines[l]))]

\* get_shape_canticum(xml_filepath, responsion_id) on the file with the root
\* strophes; None.findall raises when no strophe has the id
CallGetShapeCanticum ==
    /\ pc = "get_shape"
    /\ IF strophes_with(strophes, shape_id) = <<>>
       THEN /\ result' = Raised("AttributeError")
            /\ UNCHANGED row_lengths
       ELSE /\ row_lengths' = get_shape_canticum(strophes, shape_id)
            /\ UNCHANGED result
    /\ pc' = "shape_done"
    /\ UNCHANGED <<strophes, lines, canon, units, responds, pairwise,
                   line_pos, combined, shape_id>>
    /\ UNCHANGED <<buckets, ratios, normalized_canticum>>
    /\ UNCHANGED <<contourVars, compileVars, metricVars>>
    /\ UNCHANGED <<corpusVars, loopVars, sampleVars>>

\* the syllables of the shape specification: a heavy syllable, a resolution
\* syllable, and a syllable element without text
ShapeKinds ==
    {Syll("heavy", FALSE, FALSE, FALSE, PlainText),
     Syll("light", FALSE, TRUE, FALSE, PlainText),
     Syll("heavy", FALSE, FALSE, FALSE, <<>>)}

InitShape ==
    /\ TextAmong(ShapeKinds, 2, MaxShapeLines, MaxShapeSylls)
    /\ pc = "get_shape"
    /\ lines = <<>>
    /\ canon = <<>>
    /\ units = <<>>
    /\ responds = FALSE
    /\ pairwise = <<>>
    /\ line_pos = 0
    /\ combined = NoLists
    /\ result = NoResult
    /\ buckets = <<>>
    /\ ratios = <<>>
    /\ normalized_canticum = <<>>
    /\ line_contours = <<>>
    /\ all_contours = <<>>
    /\ NoMetric
    /\ shape_id \in {"r1", "r2"}
    /\ row_lengths = <<>>
    /\ NoCorpus
    /\ NoLoop
    /\ NoSample
    /\ NoCompile

NextShape == CallGetShapeCanticum

SpecShape == InitShape /\ [][NextShape]_vars

-----------------------------------------------------------------------------
(* THE LYRIC BASELINE (src/baseline.py): lyric_line_sample_cached, *)
(* search_external_corpus_for_line, make_lyric_baseline *)

\* the fallback configuration
PINDAR_MAX_TRIMMING == 10
EXTERNAL_MAX_TRIMMING == 10
PINDAR_MAX_PADDING == 4
EXTERNAL_MAX_PADDING == 4

\* A line item of a corpus: the line with its file, the indices of its
\* canticum, strophe and line, and the responsion attribute of its strophe.
Item(file, strophe_idx, l_idx, responsion_id, line) ==
    [file |-> file, canticum_idx |-> 0, strophe_idx |-> strophe_idx,
     line_idx |-> l_idx, responsion_id |-> responsion_id, line |-> line]

position_key(item) ==
    <<item.file, item.canticum_idx, item.strophe_idx, item.line_idx>>

\* lines_by_length[n] of the cached corpus, and the collection loops of
\* search_external_corpus_for_line: the items whose line has canonical length n
lines_by_length(corpus, n) ==
    SelectSeq(corpus, LAMBDA item : Len(canonical_sylls(item.line)) = n)

RECURSIVE Flatten(_)
Flatten(seqs) ==
    IF seqs = <<>> THEN <<>> ELSE Head(seqs) \o Flatten(Tail(seqs))

\* .//syll[not(@resolution='True') and not(@anceps='True')] of the lines
plain_syllables(corpus) ==
    Flatten([k \in DOMAIN corpus |->
                SelectSeq(corpus[k].line.sylls,
                          LAMBDA s : ~s.resolution /\ ~s.anceps)])

\* syllables_by_file[file] of the cached corpus
syllables_by_file(corpus, file) ==
    plain_syllables(SelectSeq(corpus, LAMBDA item : item.file = file))

\* all_syllables of the cached corpus
all_syllables(corpus) == plain_syllables(corpus)

\* available_syllables of the Pindar padding stage
available_syllables(corpus, excluded) ==
    IF excluded # None
    THEN SelectSeq(all_syllables(corpus),
                   LAMBDA s : s \notin Range(syllables_by_file(corpus, excluded)))
    ELSE all_syllables(corpus)

filter_without_responsion_check(lines_data, excluded, used_positions, used_responsions) ==
    SelectSeq(lines_data,
              LAMBDA item :
                  /\ ~(excluded # None /\ item.file = excluded)
                  /\ position_key(item) \notin used_positions)

filter_without_position_check(lines_data, excluded, used_positions, used_responsions) ==
    SelectSeq(lines_data,
              LAMBDA item :
                  /\ ~(excluded # None /\ item.file = excluded)
                  /\ item.responsion_id \notin used_responsions)

filter_lines_with_all_independence_checks(lines_data, excluded, used_positions, used_responsions) ==
    SelectSeq(lines_data,
              LAMBDA item :
                  /\ ~(excluded # None /\ item.file = excluded)
                  /\ position_key(item) \notin used_positions
                  /\ item.responsion_id \notin used_responsions)

\* The source attribute "<responsion>, strophe <s>, line <l>[, trimmed -<k>]"
\* (or padded +<k>), as its comma-separated fields.
source_info(prefix, item, change) ==
    <<prefix \o item.responsion_id,
      <<"strophe", item.strophe_idx + 1>>,
      <<"line", item.line_idx + 1>>>> \o change

\* What the sampler returns for a line taken as it is: the element with its
\* source attribute.  origins records the items the line was made of.
exact_line(prefix, item) ==
    [line |-> item.line,
     source |-> source_info(prefix, item, <<>>),
     origins |-> <<item>>]

\* sylls[:-extra_length] in a new <l>; the Pindar stage copies the attributes
\* of the line, the external stage does not
trimmed_line(prefix, item, extra_length, copy_attributes) ==
    LET sylls == item.line.sylls IN
    [line |-> Line(IF copy_attributes THEN item.line.n ELSE NoAttr,
                   SubSeq(sylls, 1, Len(sylls) - extra_length)),
     source |-> source_info(prefix, item, <<<<"trimmed", extra_length>>>>),
     origins |-> <<item>>]

\* the syllables of the line and the appended ones in a new <l>
padded_line(prefix, item, padding_amount, appended, copy_attributes) ==
    [line |-> Line(IF copy_attributes THEN item.line.n ELSE NoAttr,
                   item.line.sylls \o appended),
     source |-> source_info(prefix, item, <<<<"padded", padding_amount>>>>),
     origins |-> <<item>>]

\* used_responsions_this_position: the set of the line position being filled
used_responsions_this_position == used_responsions_per_position[line_idx + 1]

\* what a stage of the sampler leaves alone
SampleFrame ==
    UNCHANGED <<coreVars, result, contourVars, compileVars, metricVars,
                shapeVars, corpusVars, loopVars, length>>

RECURSIVE moved_once(_)
\* An element appended to a second parent is moved: of the elements chosen
\* for padding each is in the new line once, where it was appended last.
moved_once(chosen) ==
    IF chosen = <<>> THEN <<>>
    ELSE IF Head(chosen) \in Range(Tail(chosen)) THEN moved_once(Tail(chosen))
    ELSE <<Head(chosen)>> \o moved_once(Tail(chosen))

\* lyric_line_sample_cached, "Try exact length first"
SamplePindarExact ==
    /\ pc = "pindar_exact"
    /\ tried' = Append(tried, <<"pindar_exact", 0>>)
    /\ LET candidate_lines ==
               filter_lines_with_all_independence_checks(
                   lines_by_length(cached_corpus, length), exclude_file,
                   used_metrical_positions, used_responsions_this_position)
       IN IF candidate_lines # <<>>
          THEN \E k \in DOMAIN candidate_lines :
                   LET selected_item == candidate_lines[k] IN
                   /\ used_metrical_positions' =
                          used_metrical_positions
                              \cup {position_key(selected_item)}
                   /\ sample_line' = exact_line("", selected_item)
                   /\ pc' = "sampled"
                   /\ UNCHANGED amount
          ELSE /\ pc' = "pindar_trim"
               /\ amount' = 1
               /\ UNCHANGED <<used_metrical_positions, sample_line>>
    /\ UNCHANGED used_responsions_per_position
    /\ SampleFrame

\* lyric_line_sample_cached, one turn of the trimming loop, extra_length =
\* amount; after the last turn search_external_corpus_for_line is called
SamplePindarTrim ==
    /\ pc = "pindar_trim"
    /\ tried' = Append(tried, <<"pindar_trim", amount>>)
    /\ LET candidate_lines ==
               filter_lines_with_all_independence_checks(
                   lines_by_length(cached_corpus, length + amount),
                   exclude_file, used_metrical_positions,
                   used_responsions_this_position)
           goes_on ==
               IF amount < PINDAR_MAX_TRIMMING
               THEN pc' = "pindar_trim" /\ amount' = amount + 1
               ELSE pc' = "external" /\ amount' = 0
       IN IF candidate_lines # <<>>
          THEN \E k \in DOMAIN candidate_lines :
                   LET selected_item == candidate_lines[k] IN
                   /\ used_metrical_positions' =
                          used_metrical_positions
                              \cup {position_key(selected_item)}
                   /\ IF Len(selected_item.line.sylls) >= amount
                      THEN /\ sample_line' =
                                  trimmed_line("", selected_item, amount, TRUE)
                           /\ pc' = "sampled"
                           /\ UNCHANGED amount
                      ELSE goes_on /\ UNCHANGED sample_line
          ELSE /\ goes_on
               /\ UNCHANGED <<used_metrical_positions, sample_line>>
    /\ UNCHANGED used_responsions_per_position
    /\ SampleFrame

\* search_external_corpus_for_line up to its first search: None at once when
\* the folder is missing or holds no xml file
SampleExternalStart ==
    /\ pc = "external"
    /\ IF ~external_corpus.exists \/ external_corpus.xml_files = {}
       THEN sample_line' = NoLine /\ pc' = "sampled"
       ELSE pc' = "external_exact" /\ UNCHANGED sample_line
    /\ UNCHANGED <<used_metrical_positions, used_responsions_per_position,
                   amount, tried>>
    /\ SampleFrame

\* the tracking sets after a line of the external corpus was taken
ExternalTaken(selected_metadata) ==
    /\ used_metrical_positions' =
           used_metrical_positions \cup {position_key(selected_metadata)}
    /\ used_responsions_per_position' =
           [used_responsions_per_position EXCEPT
               ![line_idx + 1] = @ \cup {selected_metadata.responsion_id}]

\* search_external_corpus_for_line, "Try exact length first"
SampleExternalExact ==
    /\ pc = "external_exact"
    /\ tried' = Append(tried, <<"external_exact", 0>>)
    /\ LET filtered_lines ==
               filter_lines_with_all_independence_checks(
                   lines_by_length(external_corpus.items, length),
                   exclude_file, used_metrical_positions,
                   used_responsions_this_position)
       IN IF filtered_lines # <<>>
          THEN \E k \in DOMAIN filtered_lines :
                   LET selected_metadata == filtered_lines[k] IN
                   /\ sample_line' = exact_line("external:", selected_metadata)
                   /\ ExternalTaken(selected_metadata)
                   /\ pc' = "sampled"
                   /\ UNCHANGED amount
          ELSE /\ pc' = "external_trim"
               /\ amount' = 1
               /\ UNCHANGED <<used_metrical_positions,
                              used_responsions_per_position, sample_line>>
    /\ SampleFrame

\* search_external_corpus_for_line, one turn of the external trimming loop
SampleExternalTrim ==
    /\ pc = "external_trim"
    /\ tried' = Append(tried, <<"external_trim", amount>>)
    /\ LET filtered_lines ==
               filter_lines_with_all_independence_checks(
                   lines_by_length(external_corpus.items, length + amount),
                   exclude_file, used_metrical_positions,
                   used_responsions_this_position)
           goes_on ==
               /\ IF amount < EXTERNAL_MAX_TRIMMING
                  THEN pc' = "external_trim" /\ amount' = amount + 1
                  ELSE pc' = "pindar_pad" /\ amount' = 1
               /\ UNCHANGED <<used_metrical_positions,
                              used_responsions_per_position, sample_line>>
       IN IF filtered_lines # <<>>
          THEN \E k \in DOMAIN filtered_lines :
                   LET selected_metadata == filtered_lines[k] IN
                   IF Len(selected_metadata.line.sylls) >= amount
                   THEN /\ sample_line' =
                               trimmed_line("external:", selected_metadata,
                                            amount, FALSE)
                        /\ ExternalTaken(selected_metadata)
                        /\ pc' = "sampled"
                        /\ UNCHANGED amount
                   ELSE goes_on
          ELSE goes_on
    /\ SampleFrame

\* search_external_corpus_for_line, one turn of the Pindar padding loop,
\* padding_amount = amount.  The line chosen is returned without the random
\* syllables when fewer than padding_amount syllables are available.
SamplePindarPad ==
    /\ pc = "pindar_pad"
    /\ tried' = Append(tried, <<"pindar_pad", amount>>)
    /\ LET candidate_lines ==
               filter_lines_with_all_independence_checks(
                   lines_by_length(cached_corpus, length - amount),
                   exclude_file, used_metrical_positions,
                   used_responsions_this_position)
           available == available_syllables(cached_corpus, exclude_file)
       IN IF candidate_lines # <<>>
          THEN \E k \in DOMAIN candidate_lines :
                   LET selected_item == candidate_lines[k] IN
                   /\ used_metrical_positions' =
                          used_metrical_positions
                              \cup {position_key(selected_item)}
                   /\ IF available # <<>> /\ Len(available) >= amount
                      THEN \E chosen \in [1..amount -> Range(available)] :
                               sample_line' =
                                   padded_line("", selected_item, amount,
                                               chosen, TRUE)
                      ELSE sample_line' =
                               padded_line("", selected_item, amount, <<>>,
                                           TRUE)
                   /\ pc' = "sampled"
                   /\ UNCHANGED amount
          ELSE /\ IF amount < PINDAR_MAX_PADDING
                  THEN pc' = "pindar_pad" /\ amount' = amount + 1
                  ELSE pc' = "external_pad" /\ amount' = 1
               /\ UNCHANGED <<used_metrical_positions, sample_line>>
    /\ UNCHANGED used_responsions_per_position
    /\ SampleFrame

\* search_external_corpus_for_line, one turn of the external padding loop.
\* When the turn finds no line it goes on to "for syll in sylls" inside the
\* loop, where sylls is not bound: the UnboundLocalError is caught by the
\* except clause of the function, which then returns None.
SampleExternalPad ==
    /\ pc = "external_pad"
    /\ tried' = Append(tried, <<"external_pad", amount>>)
    /\ LET all_external_syllables == plain_syllables(external_corpus.items)
           candidate_lines_with_metadata ==
               lines_by_length(external_corpus.items, length - amount)
           filtered_lines ==
               filter_lines_with_all_independence_checks(
                   candidate_lines_with_metadata, exclude_file,
                   used_metrical_positions, used_responsions_this_position)
       IN IF /\ candidate_lines_with_metadata # <<>>
             /\ Len(all_external_syllables) >= amount
             /\ filtered_lines # <<>>
          THEN \E k \in DOMAIN filtered_lines :
               \E chosen \in [1..amount -> DOMAIN all_external_syllables] :
                   LET selected_metadata == filtered_lines[k]
                       appended ==
                           [i \in DOMAIN moved_once(chosen) |->
                               all_external_syllables[moved_once(chosen)[i]]]
                   IN /\ sample_line' =
                             padded_line("external:", selected_metadata,
                                         amount, appended, FALSE)
                      /\ ExternalTaken(selected_metadata)
          ELSE /\ sample_line' = NoLine
               /\ UNCHANGED <<used_metrical_positions,
                              used_responsions_per_position>>
    /\ pc' = "sampled"
    /\ UNCHANGED amount
    /\ SampleFrame

\* a heavy syllable, a light one and a light one of a resolution pair
HeavySyll == Syll("heavy", FALSE, FALSE, FALSE, PlainText)
LightSyll == Syll("light", FALSE, FALSE, FALSE, PlainText)
ResolutionSyll == Syll("light", FALSE, TRUE, FALSE, PlainText)

\* the lines of the sampler specification, of canonical lengths 1, 2, 1, 2, 3
SampleShapes ==
    {Line("1", <<HeavySyll>>),
     Line("1", <<HeavySyll, LightSyll>>),
     Line("1", <<ResolutionSyll, ResolutionSyll>>),
     Line("1", <<HeavySyll, ResolutionSyll, ResolutionSyll>>),
     Line("1", <<HeavySyll, LightSyll, HeavySyll>>)}

\* The corpora of at most maxLines line items, each the first line of a strophe
\* of its own: the strophes of a file are numbered in the order they come.
\* sources is the set of the pairs <<file, responsion id>> to take lines from.
CorporaAmong(sources, shapes, maxLines) ==
    UNION {{[k \in 1..n |->
               Item(f[k][1][1],
                    Cardinality({j \in 1..(k - 1) : f[j][1][1] = f[k][1][1]}),
                    0, f[k][1][2], f[k][2])]
            : f \in [1..n -> sources \X shapes]}
           : n \in 0..maxLines}

\* the folder of the external corpus: missing, without xml files, or with one
\* file of at most maxLines lines
ExternalAmong(ids, shapes, maxLines) ==
    {[exists |-> FALSE, xml_files |-> {}, items |-> <<>>],
     [exists |-> TRUE, xml_files |-> {}, items |-> <<>>]}
    \cup {[exists |-> TRUE, xml_files |-> {"ar01.xml"}, items |-> c]
          : c \in CorporaAmong({"ar01.xml"} \X ids, shapes, maxLines)}

\* nothing of the responsion checks is running
NoCore ==
    /\ strophes = <<>>
    /\ lines = <<>>
    /\ canon = <<>>
    /\ units = <<>>
    /\ responds = FALSE
    /\ pairwise = <<>>
    /\ line_pos = 0
    /\ combined = NoLists
    /\ result = NoResult
    /\ buckets = <<>>
    /\ ratios = <<>>
    /\ normalized_canticum = <<>>
    /\ line_contours = <<>>
    /\ all_contours = <<>>
    /\ NoMetric
    /\ NoShape
    /\ NoCompile

\* one call of lyric_line_sample_cached
InitSample ==
    /\ NoCore
    /\ NoLoop
    /\ cached_corpus \in CorporaAmong({"is01.xml", "ol02.xml"} \X {"r1", "r2"},
                                      SampleShapes, MaxSampleLines)
    /\ external_corpus \in ExternalAmong({"r1"}, SampleShapes,
                                         MaxExternalLines)
    /\ exclude_file \in {None, "is01.xml"}
    /\ length \in 1..MaxSampleLength
    /\ used_metrical_positions = {}
    /\ used_responsions_per_position \in {<<{}>>, <<{"r1"}>>}
    /\ amount = 0
    /\ tried = <<>>
    /\ sample_line = NoLine
    /\ pc = "pindar_exact"

NextSample ==
    \/ SamplePindarExact
    \/ SamplePindarTrim
    \/ SampleExternalStart
    \/ SampleExternalExact
    \/ SampleExternalTrim
    \/ SamplePindarPad
    \/ SampleExternalPad

SpecSample == InitSample /\ [][NextSample]_vars

\* etree.tostring of a sampled line: the element with its source attribute
line_text(sampled) == [line |-> sampled.line, source |-> sampled.source]

\* source_attr.split(',')[0].strip()
responsion_from_source(source_attr) == source_attr[1]

\* max_attempts of a line position
max_attempts == sample_size * 10

\* the condition of the while loop of a line position
MoreAttempts == Len(position_lines) < sample_size /\ attempts < max_attempts

\* what a step of make_lyric_baseline outside the sampler leaves alone
LoopFrame ==
    UNCHANGED <<coreVars, contourVars, compileVars, metricVars, shapeVars,
                corpusVars, strophe_scheme, sample_size>>

\* make_lyric_baseline, the while loop of a line position: the call of
\* lyric_line_sample_cached with the length of the position
BaselineAttempt ==
    /\ pc = "line_loop"
    /\ MoreAttempts
    /\ length' = strophe_scheme[line_idx + 1]
    /\ amount' = 0
    /\ tried' = <<>>
    /\ sample_line' = NoLine
    /\ pc' = "pindar_exact"
    /\ UNCHANGED <<result, line_idx, attempts, position_lines, needed,
                   lines_by_position, used_metrical_positions,
                   used_responsions_per_position>>
    /\ LoopFrame

\* make_lyric_baseline, the rest of the turn of the while loop: the line is
\* accepted unless it is None or its text was accepted for the position before
BaselineLineSampled ==
    /\ pc = "sampled"
    /\ IF /\ sample_line # NoLine
          /\ line_text(sample_line)
                 \notin {line_text(position_lines[k]) : k \in DOMAIN position_lines}
       THEN /\ used_responsions_per_position' =
                   [used_responsions_per_position EXCEPT
                       ![line_idx + 1] =
                           @ \cup {responsion_from_source(sample_line.source)}]
            /\ position_lines' = Append(position_lines, sample_line)
       ELSE UNCHANGED <<used_responsions_per_position, position_lines>>
    /\ attempts' = attempts + 1
    /\ pc' = "line_loop"
    /\ UNCHANGED <<result, line_idx, needed, lines_by_position,
                   used_metrical_positions, length, amount, tried,
                   sample_line>>
    /\ LoopFrame

\* make_lyric_baseline, after the while loop: the number of lines the
\* paired-line fallback is asked for
BaselineWhileEnds ==
    /\ pc = "line_loop"
    /\ ~MoreAttempts
    /\ needed' = IF Len(position_lines) < sample_size
                 THEN sample_size - Len(position_lines) ELSE 0
    /\ pc' = "fallback"
    /\ UNCHANGED <<result, line_idx, attempts, position_lines,
                   lines_by_position, sampleVars>>
    /\ LoopFrame

\* candidates of paired_line_fallback
pair_candidates(corpus, excluded, used_positions, used_responsions) ==
    SelectSeq(corpus,
              LAMBDA item :
                  /\ ~(excluded # None /\ item.file = excluded)
                  /\ position_key(item) \notin used_positions
                  /\ item.responsion_id \notin used_responsions)

\* trim_needed of a pair for the target length
trim_needed(item1, item2, target_len) ==
    Len(item1.line.sylls) + Len(item2.line.sylls) - target_len

\* the pairs of candidates paired_line_fallback does not skip
valid_pairs(candidates, target_len, used_positions, used_responsions) ==
    {p \in (DOMAIN candidates) \X (DOMAIN candidates) :
        LET item1 == candidates[p[1]]
            item2 == candidates[p[2]]
        IN /\ position_key(item1) # position_key(item2)
           /\ position_key(item2) \notin used_positions
           /\ item2.responsion_id \notin used_responsions
           /\ Len(canonical_sylls(item1.line))
                  + Len(canonical_sylls(item2.line)) >= target_len
           /\ trim_needed(item1, item2, target_len) >= 0
           /\ trim_needed(item1, item2, target_len) <= Len(item1.line.sylls)}

\* the line paired_line_fallback builds of a pair: the first line without its
\* first trim_needed syllables, then the second line
paired_line(item1, item2, target_len) ==
    LET trimmed == trim_needed(item1, item2, target_len)
        sylls1 == item1.line.sylls
    IN [line |-> Line(item1.line.n,
                      SubSeq(sylls1, trimmed + 1, Len(sylls1))
                          \o item2.line.sylls),
        source |-> <<"paired:" \o item1.responsion_id \o "+"
                         \o item2.responsion_id,
                     <<"trimmed_first", trimmed>>>>,
        origins |-> <<item1, item2>>]

\* make_lyric_baseline, one turn of "for _ in range(needed)": a call of
\* paired_line_fallback.  It returns None with fewer than two candidates, and
\* may return None when none of the pairs it draws at random is valid.
BaselinePairedFallback ==
    /\ pc = "fallback"
    /\ needed > 0
    /\ LET candidates ==
               pair_candidates(cached_corpus, exclude_file,
                               used_metrical_positions,
                               used_responsions_this_position)
           pairs ==
               valid_pairs(candidates, strophe_scheme[line_idx + 1],
                           used_metrical_positions,
                           used_responsions_this_position)
       IN \/ /\ Len(candidates) >= 2
             /\ \E p \in pairs :
                    LET item1 == candidates[p[1]]
                        item2 == candidates[p[2]]
                    IN /\ position_lines' =
                              Append(position_lines,
                                     paired_line(item1, item2,
                                                 strophe_scheme[line_idx + 1]))
                       /\ used_metrical_positions' =
                              used_metrical_positions
                                  \cup {position_key(item1),
                                        position_key(item2)}
                       /\ used_responsions_per_position' =
                              [used_responsions_per_position EXCEPT
                                  ![line_idx + 1] =
                                      @ \cup {item1.responsion_id,
                                              item2.responsion_id}]
             /\ needed' = needed - 1
          \/ /\ needed' = 0
             /\ UNCHANGED <<position_lines, used_metrical_positions,
                            used_responsions_per_position>>
    /\ pc' = "fallback"
    /\ UNCHANGED <<result, line_idx, attempts, lines_by_position, length,
                   amount, tried, sample_line>>
    /\ LoopFrame

\* make_lyric_baseline, the end of a line position: RuntimeError when lines
\* are missing, else on to the next position or to the end of the sample
BaselinePositionEnds ==
    /\ pc = "fallback"
    /\ needed = 0
    /\ IF Len(position_lines) < sample_size
       THEN /\ result' = Raised("RuntimeError")
            /\ pc' = "baseline_done"
            /\ UNCHANGED <<line_idx, attempts, position_lines,
                           lines_by_position>>
       ELSE /\ lines_by_position' = Append(lines_by_position, position_lines)
            /\ IF line_idx + 1 < Len(strophe_scheme)
               THEN /\ line_idx' = line_idx + 1
                    /\ position_lines' = <<>>
                    /\ attempts' = 0
                    /\ pc' = "line_loop"
               ELSE /\ pc' = "baseline_done"
                    /\ UNCHANGED <<line_idx, position_lines, attempts>>
            /\ UNCHANGED result
    /\ UNCHANGED <<needed, sampleVars>>
    /\ LoopFrame

\* the lines of the baseline specification, of canonical lengths 1 and 2
BaselineShapes ==
    {Line("1", <<HeavySyll>>),
     Line("1", <<HeavySyll, LightSyll>>)}

\* the files of the baseline specification with the responsion id of their
\* strophes: the file being baselined and two others
BaselineSources ==
    {<<"is01.xml", "is01">>, <<"ol02.xml", "ol02">>, <<"py03.xml", "py03">>}

\* the strophe schemes of at most maxPositions lines of length 1..maxLength
SchemesAmong(maxPositions, maxLength) ==
    UNION {[1..n -> 1..maxLength] : n \in 1..maxPositions}

\* One sample of make_lyric_baseline for is01.xml, from its first line
\* position on.  The external folder is missing or has a file with a line,
\* whose strophe carries a responsion id that the Pindar corpus has too.
InitBaseline ==
    /\ NoCore
    /\ cached_corpus \in CorporaAmong(BaselineSources, BaselineShapes,
                                      MaxBaselineLines)
    /\ external_corpus \in ExternalAmong({"ol02"}, BaselineShapes,
                                         MaxBaselineExternalLines)
    /\ external_corpus.exists => external_corpus.items # <<>>
    /\ exclude_file = "is01.xml"
    /\ strophe_scheme \in SchemesAmong(MaxBaselinePositions, MaxBaselineLength)
    /\ sample_size \in 1..MaxSampleSize
    /\ line_idx = 0
    /\ attempts = 0
    /\ position_lines = <<>>
    /\ needed = 0
    /\ lines_by_position = <<>>
    /\ used_metrical_positions = {}
    /\ used_responsions_per_position = [k \in DOMAIN strophe_scheme |-> {}]
    /\ length = 0
    /\ amount = 0
    /\ tried = <<>>
    /\ sample_line = NoLine
    /\ pc = "line_loop"

NextBaseline ==
    \/ BaselineAttempt
    \/ SamplePindarExact
    \/ SamplePindarTrim
    \/ SampleExternalStart
    \/ SampleExternalExact
    \/ SampleExternalTrim
    \/ SamplePindarPad
    \/ SampleExternalPad
    \/ BaselineLineSampled
    \/ BaselineWhileEnds
    \/ BaselinePairedFallback
    \/ BaselinePositionEnds

SpecBaseline == InitBaseline /\ [][NextBaseline]_vars

\* compatibility_canticum(xml_file_path, canticum_ID), strophes being what the
\* xpath finds: up to the loop over the line positions
CompStart ==
    /\ pc = "comp"
    /\ IF strophes = <<>>
       THEN /\ pc' = "comp_done"
            /\ result' = Raised("ValueError")
       ELSE /\ pc' = "comp_loop"
            /\ UNCHANGED result
    /\ line_pos' = 1
    /\ UNCHANGED <<strophes, lines, canon, units, responds, pairwise,
                   combined, buckets, ratios, normalized_canticum>>
    /\ UNCHANGED <<contourVars, compileVars, metricVars, baselineVars>>

\* _compatibility_line raises on the lines at line_pos
CompLineRaises ==
    /\ pc = "comp_loop"
    /\ line_pos <= Len(strophes[1].lines)
    /\ \E compatibility_ratios \in
             {_compatibility_line(responding_lines_at(strophes, line_pos))} :
          /\ compatibility_ratios.kind # "ok"
          /\ result' = Raised(compatibility_ratios.kind)
    /\ lines' = responding_lines_at(strophes, line_pos)
    /\ pc' = "comp_done"
    /\ UNCHANGED <<strophes, canon, units, responds, pairwise, line_pos,
                   combined, buckets, ratios, normalized_canticum>>
    /\ UNCHANGED <<contourVars, compileVars, metricVars, baselineVars>>

\* _compatibility_line returns the ratios of the lines at line_pos
CompLineRatios ==
    /\ pc = "comp_loop"
    /\ line_pos <= Len(strophes[1].lines)
    /\ \E compatibility_ratios \in
             {_compatibility_line(responding_lines_at(strophes, line_pos))} :
          /\ compatibility_ratios.kind = "ok"
          /\ ratios' = Append(ratios, compatibility_ratios.ratios)
          /\ buckets' = Append(buckets, compatibility_ratios.buckets)
    /\ lines' = responding_lines_at(strophes, line_pos)
    /\ line_pos' = line_pos + 1
    /\ UNCHANGED <<strophes, pc, canon, units, responds, pairwise, combined,
                   result, normalized_canticum>>
    /\ UNCHANGED <<contourVars, compileVars, metricVars, baselineVars>>

\* the normalization after the loop: with one strophe span is 0 and the first
\* score divided by it raises
CompNormalize ==
    /\ pc = "comp_loop"
    /\ line_pos > Len(strophes[1].lines)
    /\ IF Len(strophes) = 1 /\ \E l \in DOMAIN ratios : ratios[l] # <<>>
       THEN /\ result' = Raised("ZeroDivisionError")
            /\ UNCHANGED normalized_canticum
       ELSE /\ result' = [kind |-> "scores", lists |-> NoLists]
            /\ normalized_canticum' =
                  [l \in DOMAIN ratios |->
                      normalize(ratios[l], Len(strophes))]
    /\ pc' = "comp_done"
    /\ UNCHANGED <<strophes, lines, canon, units, responds, pairwise,
                   line_pos, combined, buckets, ratios>>
    /\ UNCHANGED <<contourVars, compileVars, metricVars, baselineVars>>

InitComp ==
    /\ CanticumAmong(CompKinds, MaxLines, MaxCompLines, MaxCompLineLen,
                     MaxCompSylls)
    /\ pc = "comp"
    /\ lines = <<>>
    /\ canon = <<>>
    /\ units = <<>>
    /\ responds = FALSE
    /\ pairwise = <<>>
    /\ line_pos = 0
    /\ combined = NoLists
    /\ result = NoResult
    /\ buckets = <<>>
    /\ ratios = <<>>
    /\ normalized_canticum = <<>>
    /\ line_contours = <<>>
    /\ all_contours = <<>>
    /\ NoMetric
    /\ NoBaseline
    /\ NoCompile

NextComp ==
    \/ CompStart
    \/ CompLineRaises
    \/ CompLineRatios
    \/ CompNormalize

SpecComp == InitComp /\ [][NextComp]_vars

\* the syllables of the contour specification: the two halves of a resolved
\* pair and a heavy syllable, each without accent or with an acute
ContourKinds ==
    {Syll("light", FALSE, TRUE, FALSE, PlainText),
     Syll("light", FALSE, TRUE, FALSE, <<"r", "a_acute">>),
     Syll("heavy", FALSE, FALSE, FALSE, PlainText),
     Syll("heavy", FALSE, FALSE, FALSE, <<"t", "a_acute">>)}

\* get_contours_line(line) for every line of the set
CallGetContours ==
    /\ pc = "get_contours"
    /\ line_contours' = [k \in DOMAIN lines |-> get_contours_line(lines[k])]
    /\ pc' = "all_contours"
    /\ UNCHANGED <<strophes, lines, canon, units, responds, pairwise,
                   line_pos, combined, result, buckets, ratios,
                   normalized_canticum, all_contours>>
    /\ UNCHANGED <<compileVars, metricVars, baselineVars>>

\* all_contours_line(*lines)
CallAllContoursLine ==
    /\ pc = "all_contours"
    /\ all_contours' = all_contours_line(lines)
    /\ pc' = "compatibility_line"
    /\ UNCHANGED <<strophes, lines, canon, units, responds, pairwise,
                   line_pos, combined, result, buckets, ratios,
                   normalized_canticum, line_contours>>
    /\ UNCHANGED <<compileVars, metricVars, baselineVars>>

\* _compatibility_line(*lines): the ratios of the one line set, or the
\* exception
CallCompatibilityLine ==
    /\ pc = "compatibility_line"
    /\ \E compatibility_ratios \in {_compatibility_line(lines)} :
          IF compatibility_ratios.kind = "ok"
          THEN /\ ratios' = <<compatibility_ratios.ratios>>
               /\ buckets' = <<compatibility_ratios.buckets>>
               /\ result' = [kind |-> "ratios", lists |-> NoLists]
          ELSE /\ result' = Raised(compatibility_ratios.kind)
               /\ UNCHANGED <<ratios, buckets>>
    /\ pc' = "contours_done"
    /\ UNCHANGED <<strophes, lines, canon, units, responds, pairwise,
                   line_pos, combined, normalized_canticum, contourVars, metricVars, baselineVars>>
    /\ UNCHANGED <<compileVars, metricVars, baselineVars>>

\* two or more lines of resolved pairs and heavy syllables
InitContours ==
    /\ LinesAmong(ContourKinds, 2, MaxLines, MaxContourSylls)
    /\ pc = "get_contours"
    /\ InitOutputs

NextContours ==
    CallGetContours \/ CallAllContoursLine \/ CallCompatibilityLine

SpecContours == InitContours /\ [][NextContours]_vars

\* the syllables of the scan specification: no accent, acute, no accent
\* before a word end, acute before a word end, an enclitic alone or as the
\* first half of a resolved pair, grave, a proclitic, and no text
ScanKinds ==
    {Syll("heavy", FALSE, FALSE, FALSE, PlainText),
     Syll("heavy", FALSE, FALSE, FALSE, <<"t", "a_acute">>),
     Syll("heavy", FALSE, FALSE, FALSE, <<"t", "a", " ">>),
     Syll("heavy", FALSE, FALSE, FALSE, <<"t", "a_acute", " ">>),
     Syll("light", FALSE, FALSE, FALSE, <<"t", "e">>),
     Syll("light", FALSE, TRUE, FALSE, <<"t", "e">>),
     Syll("heavy", FALSE, FALSE, FALSE, <<"t", "a_grave">>),
     Syll("heavy", FALSE, FALSE, FALSE, <<"o">>),
     Syll("heavy", FALSE, FALSE, FALSE, <<>>)}

\* one line
InitScan ==
    /\ LinesAmong(ScanKinds, 1, 1, MaxScanSylls)
    /\ pc = "get_contours"
    /\ InitOutputs

NextScan == CallGetContours

SpecScan == InitScan /\ [][NextScan]_vars

\* the syllables of the compile specification
AssertKinds ==
    {Syll("heavy", FALSE, FALSE, FALSE, PlainText),
     Syll("light", FALSE, FALSE, FALSE, PlainText),
     Syll("light", FALSE, TRUE, FALSE, PlainText)}

\* the responsion id the outer loop is at
responsion_id_at(g) == responsion_ids(fromstring(xml_input))[g]

\* the element of zip(*strophe_lines) the inner loop is at
lines_at(index) == [k \in DOMAIN group_lines |-> group_lines[k][index]]

\* list(zip(*fixed_strophe_lines))[line_index] of a text
line_set_in(text, responsion_id, index) ==
    LET ls == lines_of_strophes(group_strophes(fromstring(text),
                                               responsion_id))
    IN [k \in DOMAIN ls |-> ls[k][index]]

\* history: the line set at (group_pos, line_index) is gone through; fix says
\* how, after the text carried forward from then on
Checked(fix, after) ==
    [group |-> group_pos, index |-> line_index, fix |-> fix,
     before |-> xml_text, after |-> after,
     responds_after |->
        check_line_responsion(
            line_set_in(after, responsion_id_at(group_pos), line_index))]

\* for responsion_id, strophes in responsion_groups.items(): the head of one
\* turn, or the return after the last group. The strophes of a group not yet
\* gone through are those of the root parsed from the input.
AssertGroupStart ==
    /\ pc = "group_start"
    /\ group_pos <= Len(responsion_ids(fromstring(xml_input)))
    /\ group_lines' =
          lines_of_strophes(group_strophes(fromstring(xml_input),
                                           responsion_id_at(group_pos)))
    /\ buggy_lines' = 0
    /\ line_index' = 1
    /\ pc' = "line"
    /\ UNCHANGED <<xml_input, xml_text, attempt_autofix, group_pos,
                   total_buggy_lines, diff_indices_list, autofix_result,
                   perfect_responsion, checked>>
    /\ UNCHANGED <<strophes, lines, canon, units, responds, pairwise,
                   line_pos, combined, result, buckets, ratios,
                   normalized_canticum, contourVars, metricVars, baselineVars>>

\* a line set that responds
AssertLineResponds ==
    /\ pc = "line"
    /\ line_index \in ZipPositions(group_lines)
    /\ metrically_responding_lines_polystrophic(lines_at(line_index))
    /\ diff_indices_list' = diff_indices_of(lines_at(line_index))
    /\ checked' = checked \cup {Checked("responds", xml_text)}
    /\ line_index' = line_index + 1
    /\ UNCHANGED <<xml_input, xml_text, attempt_autofix, group_pos,
                   group_lines, buggy_lines, total_buggy_lines,
                   autofix_result, perfect_responsion, pc>>
    /\ UNCHANGED <<strophes, lines, canon, units, responds, pairwise,
                   line_pos, combined, result, buckets, ratios,
                   normalized_canticum, contourVars, metricVars, baselineVars>>

\* a line set that does not respond, up to the autofix attempt
AssertLineFails ==
    /\ pc = "line"
    /\ line_index \in ZipPositions(group_lines)
    /\ ~metrically_responding_lines_polystrophic(lines_at(line_index))
    /\ diff_indices_list' = diff_indices_of(lines_at(line_index))
    /\ buggy_lines' = buggy_lines + 1
    /\ IF attempt_autofix
       THEN /\ pc' = "autofix"
            /\ UNCHANGED <<line_index, checked>>
       ELSE /\ checked' = checked \cup {Checked("no_attempt", xml_text)}
            /\ line_index' = line_index + 1
            /\ UNCHANGED pc
    /\ UNCHANGED <<xml_input, xml_text, attempt_autofix, group_pos,
                   group_lines, total_buggy_lines, autofix_result,
                   perfect_responsion>>
    /\ UNCHANGED <<strophes, lines, canon, units, responds, pairwise,
                   line_pos, combined, result, buckets, ratios,
                   normalized_canticum, contourVars, metricVars, baselineVars>>

\* success, fixed_xml = autofix_responsion(...): in the loop of
\* assert_responsion, or called on its own
CallAutofixResponsion ==
    /\ pc \in {"autofix", "autofix_responsion"}
    /\ autofix_result' =
          autofix_responsion(xml_text, responsion_id_at(group_pos),
                             line_numbers(lines_at(line_index)),
                             diff_indices_list, lines_at(line_index))
    /\ pc' = IF pc = "autofix" THEN "if_success" ELSE "autofix_returned"
    /\ UNCHANGED <<xml_input, xml_text, attempt_autofix, group_pos,
                   line_index, group_lines, buggy_lines, total_buggy_lines,
                   diff_indices_list, perfect_responsion, checked>>
    /\ UNCHANGED <<strophes, lines, canon, units, responds, pairwise,
                   line_pos, combined, result, buckets, ratios,
                   normalized_canticum, contourVars, metricVars, baselineVars>>

\* "Autofix not applicable."
AssertAutofixNotApplicable ==
    /\ pc = "if_success"
    /\ ~autofix_result.success
    /\ checked' = checked \cup {Checked("not_applicable", xml_text)}
    /\ line_index' = line_index + 1
    /\ pc' = "line"
    /\ UNCHANGED <<xml_input, xml_text, attempt_autofix, group_pos,
                   group_lines, buggy_lines, total_buggy_lines,
                   diff_indices_list, autofix_result, perfect_responsion>>
    /\ UNCHANGED <<strophes, lines, canon, units, responds, pairwise,
                   line_pos, combined, result, buckets, ratios,
                   normalized_canticum, contourVars, metricVars, baselineVars>>

\* the recheck of the fixed lines succeeds
AssertAutofixSuccessful ==
    /\ pc = "if_success"
    /\ autofix_result.success
    /\ check_line_responsion(
          line_set_in(autofix_result.fixed_xml, responsion_id_at(group_pos),
                      line_index))
    /\ xml_text' = autofix_result.fixed_xml
    /\ buggy_lines' = buggy_lines - 1
    /\ checked' = checked \cup {Checked("adopted", autofix_result.fixed_xml)}
    /\ line_index' = line_index + 1
    /\ pc' = "line"
    /\ UNCHANGED <<xml_input, attempt_autofix, group_pos, group_lines,
                   total_buggy_lines, diff_indices_list, autofix_result,
                   perfect_responsion>>
    /\ UNCHANGED <<strophes, lines, canon, units, responds, pairwise,
                   line_pos, combined, result, buckets, ratios,
                   normalized_canticum, contourVars, metricVars, baselineVars>>

\* a loop that tries the line set again after a recheck that failed
AssertAutofixRetries ==
    /\ pc = "if_success"
    /\ autofix_result.success
    /\ ~check_line_responsion(
          line_set_in(autofix_result.fixed_xml, responsion_id_at(group_pos),
                      line_index))
    /\ pc' = "autofix"
    /\ UNCHANGED <<xml_input, xml_text, attempt_autofix, group_pos,
                   line_index, group_lines, buggy_lines, total_buggy_lines,
                   diff_indices_list, autofix_result, perfect_responsion,
                   checked>>
    /\ UNCHANGED <<strophes, lines, canon, units, responds, pairwise,
                   line_pos, combined, result, buckets, ratios,
                   normalized_canticum, contourVars, metricVars, baselineVars>>

\* "Autofix applied but responsion still fails."
AssertAutofixStillFails ==
    /\ pc = "if_success"
    /\ autofix_result.success
    /\ ~check_line_responsion(
          line_set_in(autofix_result.fixed_xml, responsion_id_at(group_pos),
                      line_index))
    /\ checked' = checked \cup {Checked("still_fails", xml_text)}
    /\ line_index' = line_index + 1
    /\ pc' = "line"
    /\ UNCHANGED <<xml_input, xml_text, attempt_autofix, group_pos,
                   group_lines, buggy_lines, total_buggy_lines,
                   diff_indices_list, autofix_result, perfect_responsion>>
    /\ UNCHANGED <<strophes, lines, canon, units, responds, pairwise,
                   line_pos, combined, result, buckets, ratios,
                   normalized_canticum, contourVars, metricVars, baselineVars>>

\* after the last element of zip(*strophe_lines)
AssertGroupEnd ==
    /\ pc = "line"
    /\ line_index \notin ZipPositions(group_lines)
    /\ total_buggy_lines' = total_after_group(total_buggy_lines, buggy_lines)
    /\ group_pos' = group_pos + 1
    /\ pc' = "group_start"
    /\ UNCHANGED <<xml_input, xml_text, attempt_autofix, line_index,
                   group_lines, buggy_lines, diff_indices_list,
                   autofix_result, perfect_responsion, checked>>
    /\ UNCHANGED <<strophes, lines, canon, units, responds, pairwise,
                   line_pos, combined, result, buckets, ratios,
                   normalized_canticum, contourVars, metricVars, baselineVars>>

\* return total_buggy_lines == 0, xml_text
AssertReturn ==
    /\ pc = "group_start"
    /\ group_pos > Len(responsion_ids(fromstring(xml_input)))
    /\ perfect_responsion' = (total_buggy_lines = 0)
    /\ pc' = "assert_done"
    /\ UNCHANGED <<xml_input, xml_text, attempt_autofix, group_pos,
                   line_index, group_lines, buggy_lines, total_buggy_lines,
                   diff_indices_list, autofix_result, checked>>
    /\ UNCHANGED <<strophes, lines, canon, units, responds, pairwise,
                   line_pos, combined, result, buckets, ratios,
                   normalized_canticum, contourVars, metricVars, baselineVars>>

\* the diff lists autofix_responsion is called with on its own: any set of
\* positions, as the diff list of every strophe
DiffLists(n) == {[i \in 1..n |-> d] : d \in SUBSET (1..MaxDiffPosition)}

\* assert_responsion(xml_text, attempt_autofix) on the text of a file of the
\* earlier steps (with its XML declaration) with up to MaxLines strophes of
\* syllables among kinds, or autofix_responsion on a line set of one of its
\* groups
InitAssertAmong(kinds) ==
    /\ TextAmong(kinds, MaxLines, MaxAssertLines, MaxAssertSylls)
    /\ xml_input = XmlText(TRUE, strophes)
    /\ xml_text = xml_input
    /\ \/ /\ pc = "group_start"
          /\ attempt_autofix \in BOOLEAN
          /\ group_pos = 1
          /\ line_index = 0
          /\ group_lines = <<>>
          /\ diff_indices_list = <<>>
       \/ /\ pc = "autofix_responsion"
          /\ attempt_autofix = TRUE
          /\ group_pos \in DOMAIN responsion_ids(strophes)
          /\ group_lines =
                lines_of_strophes(group_strophes(strophes,
                    responsion_ids(strophes)[group_pos]))
          /\ line_index \in ZipPositions(group_lines)
          /\ diff_indices_list \in DiffLists(Len(group_lines) - 1)
    /\ buggy_lines = 0
    /\ total_buggy_lines = 0
    /\ autofix_result = NoAutofix
    /\ perfect_responsion = FALSE
    /\ checked = {}
    /\ lines = <<>>
    /\ canon = <<>>
    /\ units = <<>>
    /\ responds = FALSE
    /\ pairwise = <<>>
    /\ line_pos = 0
    /\ combined = NoLists
    /\ result = NoResult
    /\ buckets = <<>>
    /\ ratios = <<>>
    /\ normalized_canticum = <<>>
    /\ line_contours = <<>>
    /\ all_contours = <<>>
    /\ NoMetric
    /\ NoBaseline

InitAssert == InitAssertAmong(AssertKinds)

NextAssert ==
    \/ AssertGroupStart
    \/ AssertLineResponds
    \/ AssertLineFails
    \/ CallAutofixResponsion
    \/ AssertAutofixNotApplicable
    \/ AssertAutofixSuccessful
    \/ AssertAutofixStillFails
    \/ AssertGroupEnd
    \/ AssertReturn

SpecAssert == InitAssert /\ [][NextAssert]_vars

\* the syllables of the compile specification with anceps marks: a text in
\* which some syllables are marked already
AncepsKinds ==
    {Syll("heavy", FALSE, FALSE, FALSE, PlainText),
     Syll("light", FALSE, FALSE, FALSE, PlainText),
     Syll("light", TRUE, FALSE, FALSE, PlainText)}

InitAnceps == InitAssertAmong(AncepsKinds)

SpecAnceps == InitAnceps /\ [][NextAssert]_vars

-----------------------------------------------------------------------------
(* The reference scan of the canonicalization rules, stated without a loop *)

\* the first index of the unbroken run of resolution-flagged syllables that
\* ends at i
RunStart(s, i) == SetMin({j \in 1..i : \A m \in j..i : s[m].resolution})

\* syllable i is the first / the second member of a resolution pair
PairFirst(s, i) ==
    /\ i \in 1..(Len(s) - 1)
    /\ s[i].resolution /\ s[i + 1].resolution
    /\ (i - RunStart(s, i)) % 2 = 0

PairSecond(s, i) == i > 1 /\ PairFirst(s, i - 1)

PairFirsts(s) == {i \in 1..Len(s) : PairFirst(s, i)}

\* a resolution-flagged syllable left without a partner
Dangling(s, i) == s[i].resolution /\ ~PairFirst(s, i) /\ ~PairSecond(s, i)

\* the syllables that open a canonical position, and the j-th of them
Heads(s) == {i \in 1..Len(s) : ~PairSecond(s, i)}

NthHead(s, j) ==
    CHOOSE h \in Heads(s) : Cardinality({x \in Heads(s) : x <= h}) = j

PositionOf(s, i) == Cardinality({x \in Heads(s) : x <= i})

\* rules (b)-(d) on one syllable
OrdinaryToken(x) ==
    IF x.anceps THEN "anceps"
    ELSE IF x.brevis_in_longo THEN "heavy"
    ELSE IF x.weight \in {"heavy", "light"} THEN x.weight
    ELSE "light"

ReferenceScan(s) ==
    [j \in 1..Cardinality(Heads(s)) |->
        IF PairFirst(s, NthHead(s, j)) THEN "heavy"
        ELSE OrdinaryToken(s[NthHead(s, j)])]

CanonDone == pc # "canonical_sylls"
UnitsDone == pc \notin {"canonical_sylls", "build_units"}
MetreDone == pc \in {"pairs", "paired"}

\* C1: canonical_sylls equals the reference scan (first matching rule of:
\* resolution pair -> heavy, anceps -> anceps, brevis_in_longo -> heavy,
\* else weight, default light) on every syllable sequence; a resolution pair
\* whose syllables are also anceps still gives heavy, and a syllable that is
\* both anceps and brevis_in_longo gives anceps.
C1_CanonicalEqualsReferenceScan ==
    CanonDone =>
        LET s == lines[1].sylls IN
        /\ canon[1] = ReferenceScan(s)
        /\ \A i \in 1..Len(s) :
            /\ (PairFirst(s, i) /\ s[i].anceps /\ s[i + 1].anceps)
                  => canon[1][PositionOf(s, i)] = "heavy"
            /\ (~PairFirst(s, i) /\ ~PairSecond(s, i)
                  /\ s[i].anceps /\ s[i].brevis_in_longo)
                  => canon[1][PositionOf(s, i)] = "anceps"

C1_Witness ==
    /\ CanonDone
    /\ Len(lines[1].sylls) = 3
    /\ \A i \in 1..3 : lines[1].sylls[i].anceps
    /\ lines[1].sylls[1].resolution /\ lines[1].sylls[2].resolution
    /\ ~lines[1].sylls[3].resolution /\ lines[1].sylls[3].brevis_in_longo
    /\ canon[1] = <<"heavy", "anceps">>

C2_PolystrophicIffLengthsAndTokens ==
    MetreDone =>
        LET N == Len(lines)
            SameLength == \A a, b \in 1..N : Len(canon[a]) = Len(canon[b])
            Agree(a, b, k) ==
                canon[a][k] = canon[b][k]
                    \/ canon[a][k] = "anceps" \/ canon[b][k] = "anceps"
        IN
        /\ responds =
              (/\ SameLength
               /\ \A k \in 1..Len(canon[1]) :
                    \A a, b \in 1..N :
                        (canon[a][k] # "anceps" /\ canon[b][k] # "anceps")
                            => canon[a][k] = canon[b][k])
        /\ ~SameLength => ~responds
        /\ (N = 2 /\ SameLength
              /\ \A k \in 1..Len(canon[1]) : Agree(1, 2, k)) => responds

C2_Witness ==
    /\ MetreDone
    /\ Len(lines) = 3
    /\ responds
    /\ canon[1] = <<"anceps">> /\ canon[2] = <<"heavy">>
    /\ canon[3] = <<"heavy">>
    /\ Len(lines[3].sylls) = 2

\* C4: the two-line check equals the N-line check on two lines, the N-line
\* check is True exactly when every pair of the lines responds under the
\* two-line check, and its result does not depend on the order of the lines.
C4_PairwiseEqualsPolystrophic ==
    pc = "paired" =>
        LET N == Len(lines) IN
        /\ \A a, b \in 1..N :
              pairwise[a][b] =
                  metrically_responding_lines_polystrophic(
                      <<lines[a], lines[b]>>)
        /\ responds = (\A a, b \in 1..N : pairwise[a][b])
        /\ \A p \in Permutations(1..N) :
              metrically_responding_lines_polystrophic(
                  [k \in 1..N |-> lines[p[k]]]) = responds

C4_Witness ==
    /\ pc = "paired"
    /\ Len(lines) = 3
    /\ canon[1] = <<"heavy">> /\ canon[2] = <<"anceps">>
    /\ canon[3] = <<"light">>
    /\ pairwise[1][2] /\ pairwise[2][3] /\ ~pairwise[1][3]
    /\ ~responds

\* C5: build_units_for_accent gives units with unit_ord 1..k in order, k the
\* canonical length; unit j is double exactly when canonical position j came
\* from a resolution pair, and then holds the pair's two syllables, else it
\* is single and holds the syllable of position j; so lines that metrically
\* respond have equal unit counts.
C5_UnitsFollowCanonicalPositions ==
    UnitsDone =>
        /\ \A k \in 1..Len(lines) :
            LET s == lines[k].sylls IN
            /\ Len(units[k]) = Len(canon[k])
            /\ \A j \in 1..Len(units[k]) :
                LET u == units[k][j]
                    h == NthHead(s, j)
                IN
                /\ u.unit_ord = j
                /\ u.type \in {"single", "double"}
                /\ (u.type = "double") = PairFirst(s, h)
                /\ u.type = "double" =>
                      (u.syll1 = s[h] /\ u.syll2 = s[h + 1]
                         /\ canon[k][j] = "heavy")
                /\ u.type = "single" => u.syll = s[h]
        /\ (MetreDone /\ responds) =>
              \A a, b \in 1..Len(lines) : Len(units[a]) = Len(units[b])

C5_Witness ==
    /\ MetreDone /\ responds
    /\ Len(lines) = 2
    /\ Len(lines[1].sylls) = 2 /\ Len(lines[2].sylls) = 1
    /\ units[1][1].type = "double" /\ units[2][1].type = "single"
    /\ Len(units[1]) = 1 /\ Len(units[2]) = 1


-----------------------------------------------------------------------------
(* The accentual responder, per ordinal *)

AccentDone == pc = "done" /\ result.kind = "lists"

\* the match groups of a list that belong to ordinal j
GroupsAt(list, j) ==
    SelectSeq(list, LAMBDA g : \E key \in DOMAIN g : key[2] = j)

\* the text has, once normalized, a character of the category
TextHas(text, accent_name) ==
    \E c \in Range(normalize_word(text)) : c \in AccentChars(accent_name)

KeyOf(k, j) == <<line_n_of(lines[k]), j>>
KeysAt(j) == {KeyOf(k, j) : k \in 1..Len(lines)}

AllSingleAt(j) == \A k \in 1..Len(lines) : units[k][j].type = "single"
AllDoubleAt(j) == \A k \in 1..Len(lines) : units[k][j].type = "double"
SinglesAt(j) == {k \in 1..Len(lines) : units[k][j].type = "single"}
DoublesAt(j) == {k \in 1..Len(lines) : units[k][j].type = "double"}

\* no later line of the set carries the same n
LastWithItsNumber(k) ==
    \A m \in (k + 1)..Len(lines) : line_n_of(lines[m]) # line_n_of(lines[k])

\* C6: at an ordinal where every unit is single, a group is recorded for
\* accent category T iff every line's syllable there has a character of T;
\* the group maps each line's (line n, ordinal) to its syllable text; one
\* ordinal may be recorded under several categories.
C6_SingleMatchMapsEveryLine ==
    AccentDone =>
        \A j \in 1..Len(units[1]) : AllSingleAt(j) =>
            \A i \in 1..3 :
                LET gs == GroupsAt(result.lists[i], j) IN
                IF \A k \in 1..Len(lines) :
                        TextHas(units[k][j].syll.text, AccentNames[i])
                THEN /\ Len(gs) = 1
                     /\ DOMAIN gs[1] = KeysAt(j)
                     /\ \A k \in 1..Len(lines) :
                            gs[1][KeyOf(k, j)] = units[k][j].syll.text
                ELSE gs = <<>>

\* What holds of the all-single case: the group is recorded iff every line's
\* syllable has the accent, and each key carries the text of the last line
\* with that n.
SingleMatchMapsLastLine ==
    AccentDone =>
        \A j \in 1..Len(units[1]) : AllSingleAt(j) =>
            \A i \in 1..3 :
                LET gs == GroupsAt(result.lists[i], j) IN
                IF \A k \in 1..Len(lines) :
                        TextHas(units[k][j].syll.text, AccentNames[i])
                THEN /\ Len(gs) = 1
                     /\ DOMAIN gs[1] = KeysAt(j)
                     /\ \A k \in 1..Len(lines) : LastWithItsNumber(k) =>
                            gs[1][KeyOf(k, j)] = units[k][j].syll.text
                ELSE gs = <<>>

\* C7: at an ordinal with singles and doubles, matches go only to the acute
\* list, and only if every single is heavy with an acute and every double's
\* second sub-syllable has an acute; then exactly one two-entry group is
\* recorded for each (single, double) combination, singles x doubles groups
\* in all, and otherwise nothing is recorded.
C7_MixedCrossProductOfTwoEntryGroups ==
    AccentDone =>
        \A j \in 1..Len(units[1]) : (~AllSingleAt(j) /\ ~AllDoubleAt(j)) =>
            LET gs == GroupsAt(result.lists[1], j)
                qualifies ==
                    /\ \A k \in SinglesAt(j) :
                          /\ units[k][j].syll.weight = "heavy"
                          /\ TextHas(units[k][j].syll.text, "acute")
                    /\ \A m \in DoublesAt(j) :
                          TextHas(units[m][j].syll2.text, "acute")
            IN
            /\ GroupsAt(result.lists[2], j) = <<>>
            /\ GroupsAt(result.lists[3], j) = <<>>
            /\ IF qualifies
               THEN /\ Len(gs) =
                          Cardinality(SinglesAt(j)) * Cardinality(DoublesAt(j))
                    /\ \A e \in 1..Len(gs) : Cardinality(DOMAIN gs[e]) = 2
                    /\ \A k \in SinglesAt(j) : \A m \in DoublesAt(j) :
                          Cardinality(
                              {e \in 1..Len(gs) :
                                  /\ DOMAIN gs[e] = {KeyOf(k, j), KeyOf(m, j)}
                                  /\ gs[e][KeyOf(k, j)] = units[k][j].syll.text
                                  /\ gs[e][KeyOf(m, j)] =
                                        units[m][j].syll2.text}) = 1
               ELSE gs = <<>>

\* What holds of the mixed case: the same with the groups' size left open
\* (the single's text replaces the double's under a shared key).
MixedCrossProduct ==
    AccentDone =>
        \A j \in 1..Len(units[1]) : (~AllSingleAt(j) /\ ~AllDoubleAt(j)) =>
            LET gs == GroupsAt(result.lists[1], j)
                qualifies ==
                    /\ \A k \in SinglesAt(j) :
                          /\ units[k][j].syll.weight = "heavy"
                          /\ TextHas(units[k][j].syll.text, "acute")
                    /\ \A m \in DoublesAt(j) :
                          TextHas(units[m][j].syll2.text, "acute")
            IN
            /\ GroupsAt(result.lists[2], j) = <<>>
            /\ GroupsAt(result.lists[3], j) = <<>>
            /\ IF qualifies
               THEN /\ Len(gs) =
                          Cardinality(SinglesAt(j)) * Cardinality(DoublesAt(j))
                    /\ \A e \in 1..Len(gs) :
                          \E k \in SinglesAt(j) : \E m \in DoublesAt(j) :
                              /\ DOMAIN gs[e] = {KeyOf(k, j), KeyOf(m, j)}
                              /\ gs[e][KeyOf(k, j)] = units[k][j].syll.text
               ELSE gs = <<>>

-----------------------------------------------------------------------------
(* The accentual responder, failure as a whole *)

StrophesDone == pc = "strophes_done" /\ Len(strophes) >= 2

\* canonical token sequences that metrically respond
TokensRespond(cs) ==
    /\ \A a, b \in DOMAIN cs : Len(cs[a]) = Len(cs[b])
    /\ \A a, b \in DOMAIN cs : \A k \in 1..Len(cs[a]) :
          (cs[a][k] # "anceps" /\ cs[b][k] # "anceps") => cs[a][k] = cs[b][k]

\* the p-th line set of the strophes does not respond
LineSetFails(p) ==
    ~TokensRespond([k \in DOMAIN strophes |->
                       ReferenceScan(strophes[k].lines[p].sylls)])

LineCountsDiffer ==
    \E k \in DOMAIN strophes : Len(strophes[k].lines) # Len(strophes[1].lines)

ResponsionsDiffer ==
    \E k \in DOMAIN strophes : strophes[k].responsion # strophes[1].responsion

GroupMustFail ==
    \/ ResponsionsDiffer
    \/ LineCountsDiffer
    \/ \E p \in 1..Len(strophes[1].lines) : LineSetFails(p)

RECURSIVE MatchesUpTo(_, _)
\* the matches of category i of the line sets 1..p, in order
MatchesUpTo(i, p) ==
    IF p = 0 THEN <<>>
    ELSE MatchesUpTo(i, p - 1)
            \o accentually_responding_syllables_of_lines_polystrophic(
                   LineGroup(strophes, p)).lists[i]

\* C9: the accentual responder fails as a whole: the line-level function
\* returns False, without lists, exactly when the lines do not metrically
\* respond or their unit counts differ; the strophe-level function returns
\* False for the whole group when the responsion ids or the line counts differ
\* or any line set fails, and otherwise the matches of every line set.
C9_FailsAsAWholeWithFalse ==
    /\ pc = "done" =>
          /\ (result = ReturnFalse) =
                (\/ ~TokensRespond(canon)
                 \/ \E a, b \in DOMAIN units : Len(units[a]) # Len(units[b]))
          /\ result.kind \in {"False", "lists"}
    /\ StrophesDone =>
          IF GroupMustFail
          THEN result = ReturnFalse
          ELSE result =
                 ReturnLists([i \in 1..3 |->
                                MatchesUpTo(i, Len(strophes[1].lines))])

\* What holds of both functions: a failing input never yields lists, and a
\* passing one yields the matches of every line set; the strophe-level
\* function ends with False or with the exception raised by its print.
NeverAPartialResult ==
    /\ pc = "done" =>
          /\ (result = ReturnFalse) =
                (\/ ~TokensRespond(canon)
                 \/ \E a, b \in DOMAIN units : Len(units[a]) # Len(units[b]))
          /\ result.kind \in {"False", "lists"}
    /\ StrophesDone =>
          IF GroupMustFail
          THEN result \in {ReturnFalse, Raised("TypeError")}
          ELSE result =
                 ReturnLists([i \in 1..3 |->
                                MatchesUpTo(i, Len(strophes[1].lines))])
    /\ pc \in {"strophes", "strophes_loop"} => result = NoResult

\* the first line set passed with a match, the second failed, and the
\* function did not return False
PassedSetThenRaise ==
    /\ StrophesDone
    /\ ~ResponsionsDiffer /\ ~LineCountsDiffer
    /\ Len(strophes[1].lines) = 2
    /\ ~LineSetFails(1) /\ LineSetFails(2)
    /\ combined[1] # <<>>
    /\ result = Raised("TypeError")

\* the same with numbered lines: False is returned
PassedSetThenFalse ==
    /\ StrophesDone
    /\ ~ResponsionsDiffer /\ ~LineCountsDiffer
    /\ Len(strophes[1].lines) = 2
    /\ ~LineSetFails(1) /\ LineSetFails(2)
    /\ combined[1] # <<>>
    /\ result = ReturnFalse

-----------------------------------------------------------------------------
(* Compatibility: the range of the ratios and of the normalized scores *)

CompDone == pc = "comp_done" /\ result.kind = "scores" /\ Len(strophes) >= 2

\* ceil(n/2) / n
SmallestMajorityShare(n) == F((n + 1) \div 2, n)

\* the ratio and the normalized score at position p of line set l are as
\* claimed for n strophes
InRangeAt(l, p, n) ==
    /\ ratios[l][p] = F(Max(buckets[l][p].up, buckets[l][p].down), n)
    /\ FractionLeq(SmallestMajorityShare(n), ratios[l][p])
    /\ FractionLeq(ratios[l][p], F(1, 1))
    /\ FractionLeq(F(0, 1), normalized_canticum[l][p])
    /\ FractionLeq(normalized_canticum[l][p], F(1, 1))

\* C10: for N >= 2 strophes every ratio of _compatibility_line is
\* max(len(up), len(down)) / N and lies in [ceil(N/2)/N, 1], and every score
\* normalized by compatibility_canticum lies in [0, 1].
C10_RatiosAndScoresInRange ==
    CompDone =>
        \A l \in DOMAIN ratios : \A p \in DOMAIN ratios[l] :
            InRangeAt(l, p, Len(strophes))

\* the number of strophes that have a line at position l
LinesPresentAt(l) ==
    Cardinality({k \in DOMAIN strophes : l <= Len(strophes[k].lines)})

\* What holds: every ratio is over the lines present at its position, and the
\* claimed ranges hold wherever every strophe has a line.
RatiosOverLinesPresent ==
    CompDone =>
        \A l \in DOMAIN ratios : \A p \in DOMAIN ratios[l] :
            /\ ratios[l][p] =
                  F(Max(buckets[l][p].up, buckets[l][p].down),
                    LinesPresentAt(l))
            /\ buckets[l][p].up + buckets[l][p].down = LinesPresentAt(l)
            /\ FractionLeq(SmallestMajorityShare(LinesPresentAt(l)),
                           ratios[l][p])
            /\ FractionLeq(ratios[l][p], F(1, 1))
            /\ LinesPresentAt(l) = Len(strophes) =>
                  InRangeAt(l, p, Len(strophes))

\* three strophes, the third without the line the others have: 1/2 at a
\* position, below 2/3, normalized to -1/2
ShortStropheBelowFloor ==
    /\ CompDone
    /\ Len(strophes) = 3
    /\ ratios # <<>>
    /\ LinesPresentAt(1) = 2
    /\ \E p \in DOMAIN ratios[1] :
          /\ ratios[1][p] = F(1, 2)
          /\ normalized_canticum[1][p] = F(-1, 2)

\* three strophes that all have the line, two against one at a position
ThreeStrophesTwoAgainstOne ==
    /\ CompDone
    /\ Len(strophes) = 3
    /\ ratios # <<>>
    /\ LinesPresentAt(1) = 3
    /\ \E p \in DOMAIN ratios[1] :
          /\ buckets[1][p] = [up |-> 1, down |-> 2]
          /\ ratios[1][p] = F(2, 3)
          /\ normalized_canticum[1][p] = F(0, 1)

-----------------------------------------------------------------------------
(* Compatibility: the contour N *)

\* the contours, one per line present, at position p of line set l
ContoursAt(l, p) ==
    LET present == responding_lines_at(strophes, l) IN
    [k \in DOMAIN present |-> get_contours_line(present[k]).contours[p]]

CountIn(contours, S) ==
    Cardinality({k \in DOMAIN contours : contours[k] \in S})

\* C11: a strophe whose contour is N counts toward both buckets: up holds the
\* strophes with a contour in {UP, UP-G, N}, down those with a contour in
\* {DN, DN-A, N}; so UP, DN, N gives sizes 2 and 2, and a position whose
\* contours all lie in {DN, DN-A, N} has ratio 1.
C11_NCountsTowardBothBuckets ==
    CompDone =>
        \A l \in DOMAIN ratios : \A p \in DOMAIN ratios[l] :
            /\ buckets[l][p].up = CountIn(ContoursAt(l, p), UpContours)
            /\ buckets[l][p].down = CountIn(ContoursAt(l, p), DownContours)
            /\ Range(ContoursAt(l, p)) \subseteq DownContours
                  => ratios[l][p] = F(1, 1)

\* What holds: N is appended to up only, down holds DN and DN-A.
NCountsTowardUpOnly ==
    CompDone =>
        \A l \in DOMAIN ratios : \A p \in DOMAIN ratios[l] :
            /\ buckets[l][p].up = CountIn(ContoursAt(l, p), UpContours)
            /\ buckets[l][p].down =
                  CountIn(ContoursAt(l, p), DownContours \ UpContours)

\* three strophes with UP, DN-A and N at the first position: up has 2, down 1
UpDownAndN ==
    /\ CompDone
    /\ Len(strophes) = 3
    /\ ratios # <<>> /\ ratios[1] # <<>>
    /\ LinesPresentAt(1) = 3
    /\ ContoursAt(1, 1) = <<"UP", "DN-A", "N">>
    /\ buckets[1][1] = [up |-> 2, down |-> 1]
    /\ ratios[1][1] = F(2, 3)

\* two strophes with DN-A and N at the first position: ratio 1/2, not 1
DownAndNIsNoMatch ==
    /\ CompDone
    /\ Len(strophes) = 2
    /\ ratios # <<>> /\ ratios[1] # <<>>
    /\ ContoursAt(1, 1) = <<"DN-A", "N">>
    /\ buckets[1][1] = [up |-> 1, down |-> 1]
    /\ ratios[1][1] = F(1, 2)

-----------------------------------------------------------------------------
(* Resolved pairs in the position lists *)

ContoursDone == pc = "contours_done" /\ result.kind = "ratios"

RECURSIVE MergedContours(_, _, _)
\* the contours of a line from syllable i on, one entry per canonical
\* position: the two contours of a resolved pair as one list entry
MergedContours(sylls, line_cs, i) ==
    IF i > Len(sylls) THEN <<>>
    ELSE IF sylls[i].resolution /\ i + 1 <= Len(sylls)
            /\ sylls[i + 1].resolution
    THEN <<[list |-> TRUE, items |-> <<line_cs[i], line_cs[i + 1]>>]>>
            \o MergedContours(sylls, line_cs, i + 2)
    ELSE <<PlainEntry(line_cs[i])>> \o MergedContours(sylls, line_cs, i + 1)

\* the entries of all lines at canonical position p
CanonicalPosition(p) ==
    [k \in DOMAIN lines |->
        MergedContours(lines[k].sylls, line_contours[k].contours, 1)[p]]

\* a resolved pair with one rising and one falling contour
MixedPair(entry) ==
    /\ entry.list
    /\ ~(Range(entry.items) \subseteq UpContours)
    /\ ~(Range(entry.items) \subseteq DownContours)

MixedAt(p) == {k \in DOMAIN lines : MixedPair(CanonicalPosition(p)[k])}

\* C12: at a canonical position that is a resolved pair in only some lines, a
\* line whose pair has one rising and one falling contour is in neither
\* bucket and is not counted in the denominator of the position's ratio.
C12_MixedPairLeavesThePosition ==
    ContoursDone =>
        \A p \in DOMAIN canonical_sylls(lines[1]) :
            (MixedAt(p) # {} /\ ~all_resolved(CanonicalPosition(p))) =>
                /\ p \in DOMAIN ratios[1]
                /\ buckets[1][p] = position_buckets(CanonicalPosition(p))
                /\ ratios[1][p] =
                      F(Max(buckets[1][p].up, buckets[1][p].down),
                        Len(lines) - Cardinality(MixedAt(p)))

\* what the ratios are instead: one per syllable up to the shortest line, the
\* two halves of a pair as two positions, every line in the denominator
RatiosPerSyllable ==
    ContoursDone =>
        /\ DOMAIN ratios[1] =
              ZipPositions([k \in DOMAIN lines |-> line_contours[k].contours])
        /\ \A p \in DOMAIN ratios[1] :
              LET position == [k \in DOMAIN lines |->
                                  PlainEntry(line_contours[k].contours[p])]
              IN /\ buckets[1][p] = position_buckets(position)
                 /\ ratios[1][p] =
                       F(Max(buckets[1][p].up, buckets[1][p].down),
                         Len(lines))

\* a rising-falling pair facing one heavy syllable: the rising half is scored
\* against the heavy syllable, the falling half against the syllable after it
MixedPairFacesOneSyllable ==
    /\ ContoursDone
    /\ Len(lines) = 2
    /\ Len(lines[1].sylls) = 3 /\ Len(lines[2].sylls) = 2
    /\ MixedAt(1) = {1}
    /\ ~CanonicalPosition(1)[2].list
    /\ line_contours[1].contours = <<"UP", "DN-A", "DN">>
    /\ line_contours[2].contours = <<"DN-A", "DN">>
    /\ buckets[1][1] = [up |-> 1, down |-> 1]
    /\ ratios[1] = <<F(1, 2), F(1, 1)>>

AllContoursCalled == pc \in {"compatibility_line", "contours_done"}

\* C13: for lines that respond metrically all_contours_line returns one
\* position list per canonical position, each with one entry per line, the
\* entry of a resolved pair being the list of its two contours; for lines that
\* do not respond it raises ValueError.
C13_OneEntryPerCanonicalPosition ==
    AllContoursCalled =>
        IF metrically_responding_lines_polystrophic(lines)
        THEN all_contours.kind = "ok" =>
                /\ DOMAIN all_contours.positions =
                      DOMAIN canonical_sylls(lines[1])
                /\ \A p \in DOMAIN all_contours.positions :
                      all_contours.positions[p] = CanonicalPosition(p)
        ELSE all_contours.kind = "ValueError"

\* the part that holds: lines that do not respond raise ValueError, and every
\* position list that is returned has one entry per line
ValueErrorOrOneEntryPerLine ==
    AllContoursCalled =>
        IF metrically_responding_lines_polystrophic(lines)
        THEN \A p \in DOMAIN all_contours.positions :
                DOMAIN all_contours.positions[p] = DOMAIN lines
        ELSE all_contours.kind = "ValueError"

\* what is returned instead: the contours of the k-th syllables of the lines,
\* as far as the shortest line goes, never a list entry
OneEntryPerSyllable ==
    (AllContoursCalled /\ all_contours.kind = "ok") =>
        /\ DOMAIN all_contours.positions =
              ZipPositions([k \in DOMAIN lines |-> line_contours[k].contours])
        /\ \A p \in DOMAIN all_contours.positions : \A k \in DOMAIN lines :
              all_contours.positions[p][k] =
                  PlainEntry(line_contours[k].contours[p])

\* a resolved pair facing a heavy syllable: the pair's halves are positions 1
\* and 2, and the syllable after the pair is not in the lists
PairAsTwoPositions ==
    /\ AllContoursCalled
    /\ all_contours.kind = "ok"
    /\ Len(lines) = 2
    /\ canonical_sylls(lines[1]) = <<"heavy", "heavy">>
    /\ Len(lines[1].sylls) = 3 /\ Len(lines[2].sylls) = 2
    /\ lines[1].sylls[1].resolution /\ lines[1].sylls[2].resolution
    /\ Len(all_contours.positions) = 2
    /\ all_contours.positions[2][1] = PlainEntry(line_contours[1].contours[2])

\* lines that do not respond
NonRespondingLinesRaise ==
    /\ AllContoursCalled
    /\ ~metrically_responding_lines_polystrophic(lines)
    /\ \A k \in DOMAIN lines : line_contours[k].kind = "ok"
    /\ all_contours.kind = "ValueError"

-----------------------------------------------------------------------------
(* The scan of get_contours_line *)

ScanDone ==
    /\ pc = "all_contours"
    /\ Len(lines) = 1
    /\ line_contours[1].kind = "ok"

\* no word end from syllable i up to the syllable before j
SameWord(sylls, i, j) == \A m \in i..(j - 1) : ~word_end(sylls, m)

\* C14: within one word, after the DN-A of the main accent no syllable has UP
\* and no syllable has a second DN-A (syllables set to N or UP-G aside).
C14_NoRiseAfterMainAccent ==
    ScanDone =>
        \A i, j \in DOMAIN lines[1].sylls :
            (/\ i < j
             /\ SameWord(lines[1].sylls, i, j)
             /\ line_contours[1].contours[i] = "DN-A")
                => line_contours[1].contours[j] \notin {"UP", "DN-A"}

\* the same for lines in which no syllable is flagged as resolved
NoRiseAfterMainAccentUnresolved ==
    (ScanDone /\ \A i \in DOMAIN lines[1].sylls :
                    ~lines[1].sylls[i].resolution) =>
        \A i, j \in DOMAIN lines[1].sylls :
            (/\ i < j
             /\ SameWord(lines[1].sylls, i, j)
             /\ line_contours[1].contours[i] = "DN-A")
                => line_contours[1].contours[j] \notin {"UP", "DN-A"}

\* an accented syllable, an unaccented word-final syllable, an enclitic that
\* is the first half of a resolved pair: the word-final syllable is computed
\* with pre_accent set again and the enclitic puts that contour back
RiseAfterMainAccent ==
    /\ ScanDone
    /\ Len(lines[1].sylls) = 3
    /\ lines[1].sylls[1].text = <<"t", "a_acute">>
    /\ lines[1].sylls[2].text = <<"t", "a", " ">>
    /\ lines[1].sylls[3].text = <<"t", "e">>
    /\ lines[1].sylls[3].resolution
    /\ line_contours[1].contours = <<"DN-A", "UP", "DN">>

\* the same word before an enclitic that is not flagged as resolved
FallAfterMainAccent ==
    /\ ScanDone
    /\ Len(lines[1].sylls) = 3
    /\ lines[1].sylls[1].text = <<"t", "a_acute">>
    /\ lines[1].sylls[2].text = <<"t", "a", " ">>
    /\ lines[1].sylls[3].text = <<"t", "e">>
    /\ ~lines[1].sylls[3].resolution
    /\ line_contours[1].contours = <<"DN-A", "DN", "DN">>

Contours == {"UP", "UP-G", "DN", "DN-A", "N"}

ScanCalled == pc = "all_contours" /\ Len(lines) = 1

\* C15: for every line of at least one syllable get_contours_line returns
\* one contour per syllable, each among UP, UP-G, DN, DN-A and N, and does
\* not raise; a line of one syllable and the last syllable of a line included.
C15_OneContourPerSyllable ==
    (ScanCalled /\ Len(lines[1].sylls) >= 1) =>
        /\ line_contours[1].kind = "ok"
        /\ Len(line_contours[1].contours) = Len(lines[1].sylls)
        /\ Range(line_contours[1].contours) \subseteq Contours

\* what holds: a call that returns returns one contour per syllable
OneContourPerSyllableIfReturned ==
    (ScanCalled /\ line_contours[1].kind = "ok") =>
        /\ Len(line_contours[1].contours) = Len(lines[1].sylls)
        /\ Range(line_contours[1].contours) \subseteq Contours

\* a line of two or more syllables, each with a text, returns
LongerLinesWithTextReturn ==
    (/\ ScanCalled
     /\ Len(lines[1].sylls) >= 2
     /\ \A i \in DOMAIN lines[1].sylls : lines[1].sylls[i].text # <<>>)
        => line_contours[1].kind = "ok"

\* a line of one syllable without a space after its vowel: next_syll is read
\* before any assignment
SingleSyllableRaises ==
    /\ ScanCalled
    /\ Len(lines[1].sylls) = 1
    /\ lines[1].sylls[1].text = PlainText
    /\ line_contours[1].kind = "UnboundLocalError"

\* a line of one syllable with a space after its vowel returns
SingleSyllableBeforeSpaceReturns ==
    /\ ScanCalled
    /\ Len(lines[1].sylls) = 1
    /\ lines[1].sylls[1].text = <<"t", "a", " ">>
    /\ line_contours[1].contours = <<"N">>

\* a syllable without text in a longer line
SyllableWithoutTextRaises ==
    /\ ScanCalled
    /\ Len(lines[1].sylls) = 2
    /\ lines[1].sylls[1].text = PlainText
    /\ lines[1].sylls[2].text = <<>>
    /\ line_contours[1].kind = "TypeError"

-----------------------------------------------------------------------------
(* Autofix *)

\* autofix_responsion has been applied in the loop of assert_responsion
AutofixApplied == pc = "if_success" /\ autofix_result.success

\* the positions at which two lines of the line set differ in metre
PairwiseMismatches(line_set) ==
    {j \in DOMAIN metre_of(line_set[1]) :
        \E a, b \in DOMAIN line_set :
            metre_of(line_set[a])[j] # metre_of(line_set[b])[j]}

\* the root with the positions marked in the line at index of every strophe
\* of the group, and nothing else changed
MarkedRoot(root, responsion_id, index, positions) ==
    [k \in DOMAIN root |->
        IF root[k].responsion = responsion_id
        THEN Strophe(root[k].responsion,
                 [l \in DOMAIN root[k].lines |->
                     IF l = index
                     THEN set_anceps(root[k].lines[l], positions)
                     ELSE root[k].lines[l]])
        ELSE root[k]]

\* C16: applied to a failing line set of equal canonical lengths, autofix
\* marks anceps, in the corresponding line of every strophe of the group, the
\* syllable or resolution pair at each position where two lines of the set
\* mismatch, and nothing else; the recheck follows.
C16_AutofixMarksTheMismatches ==
    AutofixApplied =>
        fromstring(autofix_result.fixed_xml) =
            MarkedRoot(fromstring(xml_text), responsion_id_at(group_pos),
                       line_index, PairwiseMismatches(lines_at(line_index)))

\* the same for a text in which every line has its n
AutofixMarksTheMismatchesOfNumberedLines ==
    (/\ AutofixApplied
     /\ \A k \in DOMAIN strophes : \A l \in DOMAIN strophes[k].lines :
           strophes[k].lines[l].n # NoAttr)
        => fromstring(autofix_result.fixed_xml) =
              MarkedRoot(fromstring(xml_text), responsion_id_at(group_pos),
                         line_index,
                         PairwiseMismatches(lines_at(line_index)))

\* lines without n: a heavy syllable against a light one, autofix reports
\* success and no syllable is marked
UnnumberedLinesGetNoMark ==
    /\ AutofixApplied
    /\ Len(lines_at(line_index)) = 2
    /\ lines_at(line_index)[1].n = NoAttr
    /\ metre_of(lines_at(line_index)[1]) = <<"-">>
    /\ metre_of(lines_at(line_index)[2]) = <<"u">>
    /\ fromstring(autofix_result.fixed_xml) = fromstring(xml_text)

\* numbered lines: a resolution pair against a light syllable, both
\* syllables of the pair and the light syllable are marked
NumberedPairGetsBothMarks ==
    /\ AutofixApplied
    /\ Len(lines_at(line_index)) = 2
    /\ lines_at(line_index)[1].n # NoAttr
    /\ Len(lines_at(line_index)[1].sylls) = 2
    /\ metre_of(lines_at(line_index)[1]) = <<"-">>
    /\ metre_of(lines_at(line_index)[2]) = <<"u">>
    /\ LET fixed == line_set_in(autofix_result.fixed_xml,
                                responsion_id_at(group_pos), line_index)
       IN /\ fixed[1].sylls[1].anceps /\ fixed[1].sylls[2].anceps
          /\ fixed[2].sylls[1].anceps

\* autofix_responsion has returned, in the loop or called on its own
AutofixReturned == pc \in {"if_success", "autofix_returned"}

LengthsDiffer(line_set) ==
    \E a, b \in DOMAIN line_set :
        Len(canonical_sylls(line_set[a])) # Len(canonical_sylls(line_set[b]))

NoDiffPosition(diff_lists) ==
    \A i \in DOMAIN diff_lists : diff_lists[i] = {}

\* the line sets gone through for which autofix was not applicable
NotApplicable == {c \in checked : c.fix = "not_applicable"}

\* the groups the outer loop is through with
FinishedGroup(g) == g < group_pos

\* every line set of every group is gone through
AllLineSetsChecked ==
    \A g \in DOMAIN responsion_ids(strophes) :
        \A i \in ZipPositions(lines_of_strophes(
                     group_strophes(strophes, responsion_ids(strophes)[g]))) :
            \E c \in checked : c.group = g /\ c.index = i

\* C17: autofix_responsion returns (False, the text it was given) whenever
\* the canonical lengths of the lines differ or no diff list has a position;
\* in assert_responsion such a line set is left counted as buggy, the text is
\* carried forward as it was, and the loops go on to the return.
C17_UnfixableIsSkippedAndStaysBuggy ==
    /\ (AutofixReturned /\ (\/ LengthsDiffer(lines_at(line_index))
                            \/ NoDiffPosition(diff_indices_list)))
          => autofix_result = [success |-> FALSE, fixed_xml |-> xml_text]
    /\ \A c \in NotApplicable : c.after = c.before
    /\ pc \in {"line", "autofix", "if_success"} =>
          buggy_lines >=
              Cardinality({c \in NotApplicable : c.group = group_pos})
    /\ total_buggy_lines >=
          Cardinality({c \in NotApplicable : FinishedGroup(c.group)})
    /\ pc = "assert_done" =>
          /\ AllLineSetsChecked
          /\ NotApplicable # {} => ~perfect_responsion

\* a line set with lines of different lengths in the first group, and the
\* second group gone through after it
C17_Witness ==
    /\ pc = "assert_done"
    /\ ~perfect_responsion
    /\ \E c \in NotApplicable : \E d \in checked :
          /\ c.group = 1 /\ d.group = 2
          /\ LengthsDiffer(line_set_in(xml_input, responsion_id_at(1),
                                       c.index))
    /\ xml_text = xml_input

\* lines of equal length and diff lists without a position
NoPositionNoFix ==
    /\ pc = "autofix_returned"
    /\ ~LengthsDiffer(lines_at(line_index))
    /\ NoDiffPosition(diff_indices_list)
    /\ autofix_result = [success |-> FALSE, fixed_xml |-> xml_text]

\* the line sets gone through whose autofix was adopted
Adopted == {c \in checked : c.fix = "adopted"}

\* the syllable is s, except that it may have got anceps='True'
SameButAnceps(s, fixed) ==
    /\ [fixed EXCEPT !.anceps = s.anceps] = s
    /\ s.anceps => fixed.anceps

\* the root is the same strophes, lines and syllables, except for anceps
\* marks that were added
OnlyAncepsAdded(root, fixed) ==
    /\ DOMAIN fixed = DOMAIN root
    /\ \A k \in DOMAIN root :
          /\ fixed[k].responsion = root[k].responsion
          /\ DOMAIN fixed[k].lines = DOMAIN root[k].lines
          /\ \A l \in DOMAIN root[k].lines :
                /\ fixed[k].lines[l].n = root[k].lines[l].n
                /\ DOMAIN fixed[k].lines[l].sylls =
                      DOMAIN root[k].lines[l].sylls
                /\ \A i \in DOMAIN root[k].lines[l].sylls :
                      SameButAnceps(root[k].lines[l].sylls[i],
                                    fixed[k].lines[l].sylls[i])

\* C18: the text is carried forward changed only by an autofix whose recheck
\* succeeded; the text returned differs from the input text only by the
\* anceps marks of such autofixes.
C18_TextDiffersOnlyByAdoptedMarks ==
    /\ \A c \in checked : c.fix # "adopted" => c.after = c.before
    /\ Adopted = {} => xml_text = xml_input
    /\ pc = "assert_done" =>
          /\ xml_text.declaration = xml_input.declaration
          /\ OnlyAncepsAdded(fromstring(xml_input), fromstring(xml_text))

\* what holds: the same of the parsed texts, the declaration aside
RootDiffersOnlyByAdoptedMarks ==
    /\ \A c \in checked : c.fix # "adopted" => c.after = c.before
    /\ Adopted = {} => xml_text = xml_input
    /\ \A c \in Adopted :
          OnlyAncepsAdded(fromstring(c.before), fromstring(c.after))
    /\ OnlyAncepsAdded(fromstring(xml_input), fromstring(xml_text))

\* a text with an XML declaration, one autofix adopted: the text returned is
\* the serialization of the root element, without the declaration
DeclarationLost ==
    /\ pc = "assert_done"
    /\ Cardinality(Adopted) = 1
    /\ xml_input.declaration
    /\ ~xml_text.declaration
    /\ perfect_responsion

\* an autofix whose recheck fails leaves the text as it was
RejectedFixLeavesTheText ==
    /\ pc = "assert_done"
    /\ \E c \in checked : c.fix = "still_fails"
    /\ xml_text = xml_input
    /\ ~perfect_responsion

\* the line sets gone through that did not respond after their turn
Remaining == {c \in checked : ~c.responds_after}

\* C19: assert_responsion returns True exactly when no line set remains
\* non-responding after its autofix attempt: a line set found non-responding
\* adds one to buggy_lines, an adopted autofix takes that one off again, the
\* total is the sum over the groups, and neither count is negative or
\* includes a line set that was fixed.
C19_OkIffNoLineSetRemainsBuggy ==
    /\ buggy_lines >= 0
    /\ total_buggy_lines >= 0
    /\ \A c \in Adopted : c \notin Remaining
    /\ pc = "line" =>
          buggy_lines = Cardinality({c \in Remaining : c.group = group_pos})
    /\ pc \in {"autofix", "if_success"} =>
          buggy_lines =
              Cardinality({c \in Remaining : c.group = group_pos}) + 1
    /\ total_buggy_lines =
          Cardinality({c \in Remaining : FinishedGroup(c.group)})
    /\ pc = "assert_done" =>
          /\ AllLineSetsChecked
          /\ perfect_responsion <=> Remaining = {}

\* a line set found non-responding and fixed, a later line set gone through:
\* nothing counted, True returned
C19_Witness ==
    /\ pc = "assert_done"
    /\ Cardinality(Adopted) = 1
    /\ Cardinality(checked) >= 2
    /\ total_buggy_lines = 0
    /\ perfect_responsion

\* a line set left non-responding in the first group, a second group without
\* one: the total is 1 and False is returned
FirstGroupBuggySecondClean ==
    /\ pc = "assert_done"
    /\ \E c \in Remaining : c.group = 1
    /\ \E c \in checked : c.group = 2
    /\ \A c \in Remaining : c.group = 1
    /\ total_buggy_lines = Cardinality(Remaining)
    /\ ~perfect_responsion

\* the groups whose strophes do not all have the same number of lines
UnequalGroups ==
    {g \in DOMAIN responsion_ids(strophes) :
        LET ls == lines_of_strophes(
                      group_strophes(strophes, responsion_ids(strophes)[g]))
        IN \E a, b \in DOMAIN ls : Len(ls[a]) # Len(ls[b])}

\* C20: when the strophes of a responsion group have different numbers of
\* lines, assert_responsion reports a failure; it does not return True with
\* the surplus lines of the longer strophes left out.
C20_UnequalLineCountsAreReported ==
    (pc = "assert_done" /\ UnequalGroups # {}) => ~perfect_responsion

\* what is gone through: the line sets up to the shortest strophe of each
\* group, and nothing of the lines after them
OnlyZippedLinesChecked ==
    \A c \in checked :
        c.index \in ZipPositions(lines_of_strophes(
                        group_strophes(strophes,
                                       responsion_ids(strophes)[c.group])))

\* a strophe of one line and a strophe of two lines in one group, the first
\* lines responding: True is returned, the second line was never looked at
SurplusLineDropped ==
    /\ pc = "assert_done"
    /\ Len(strophes) = 2
    /\ strophes[1].responsion = strophes[2].responsion
    /\ Len(strophes[1].lines) = 1
    /\ Len(strophes[2].lines) = 2
    /\ Cardinality(checked) = 1
    /\ total_buggy_lines = 0
    /\ perfect_responsion
    /\ xml_text = xml_input

\* the line set the loops are at is gone through already
VisitedBefore ==
    \E c \in checked : c.group = group_pos /\ c.index = line_index

\* the step goes on to the next line set of the group, and records the one
\* it leaves
NextLineSet ==
    /\ group_pos' = group_pos
    /\ line_index' = line_index + 1
    /\ ~VisitedBefore
    /\ \E c \in checked' :
          /\ c.group = group_pos /\ c.index = line_index
          /\ checked' = checked \cup {c}

\* one step of the loops of assert_responsion: a line set is detected once,
\* autofix_responsion is called once for it, its result is rechecked once
\* and, whatever the recheck says, the loop goes on to the next line set;
\* line sets and groups are gone through in order
SinglePassStep ==
    /\ pc = "group_start" =>
          /\ group_pos' = group_pos
          /\ pc' = "line" => line_index' = 1 /\ checked' = checked
          /\ pc' # "line" => pc' = "assert_done" /\ UNCHANGED checked
    /\ pc = "line" =>
          \/ pc' = "line" /\ NextLineSet
          \/ /\ pc' = "autofix"
             /\ ~VisitedBefore
             /\ UNCHANGED <<group_pos, line_index, checked>>
          \/ /\ pc' = "group_start"
             /\ group_pos' = group_pos + 1
             /\ UNCHANGED checked
    /\ pc = "autofix" =>
          /\ pc' = "if_success"
          /\ UNCHANGED <<group_pos, line_index, checked>>
    /\ pc = "if_success" => pc' = "line" /\ NextLineSet
    /\ pc = "assert_done" => UNCHANGED vars

\* C21: for each line set that assert_responsion detects as non-responding,
\* autofix_responsion is called at most once and its result is rechecked at
\* most once; a line set that still fails after the recheck is not tried
\* again, and no line set is gone through twice in one run.
C21_SinglePassPerLineSet == [][SinglePassStep]_vars

\* a run that returned after a line set whose fix was rechecked and rejected:
\* the line set has one record, and the loop went on
C21_Witness ==
    /\ pc = "assert_done"
    /\ \E c \in checked :
          /\ c.fix = "still_fails"
          /\ \A d \in checked :
                (d.group = c.group /\ d.index = c.index) => d = c
    /\ AllLineSetsChecked

\* the line set of the input text a record is about
InputLineSet(c) == line_set_in(xml_input, responsion_id_at(c.group), c.index)

\* the records of the line sets that responded when they were gone through
FoundResponding == {c \in checked : c.fix = "responds"}

\* C22: the autofix step on lines that already respond is a no-op: for
\* responding lines no diff positions are found, autofix_responsion is not
\* called, no syllable is marked, and the text returned is the input text.
C22_RespondingLinesHaveNoDiffAndNoFix ==
    /\ \A c \in checked :
          metrically_responding_lines_polystrophic(InputLineSet(c))
            => /\ c.fix = "responds"
               /\ c.after = c.before
               /\ NoDiffPosition(diff_indices_of(InputLineSet(c)))
    /\ (pc = "assert_done" /\ checked = FoundResponding)
          => xml_text = xml_input /\ perfect_responsion

\* what holds: the same without the diff positions
RespondingLinesAreLeftAlone ==
    /\ \A c \in checked :
          metrically_responding_lines_polystrophic(InputLineSet(c))
            => c.fix = "responds" /\ c.after = c.before
    /\ pc \in {"autofix", "if_success"} =>
          ~metrically_responding_lines_polystrophic(lines_at(line_index))
    /\ (pc = "assert_done" /\ checked = FoundResponding)
          => xml_text = xml_input /\ perfect_responsion

\* a light syllable facing a light syllable marked anceps: the lines respond,
\* no autofix is attempted, and the diff list has position 1
RespondingWithDiffPosition ==
    /\ pc = "assert_done"
    /\ checked = FoundResponding
    /\ \E c \in checked :
          /\ Len(InputLineSet(c)) = 2
          /\ canonical_sylls(InputLineSet(c)[1]) = <<"light">>
          /\ canonical_sylls(InputLineSet(c)[2]) = <<"anceps">>
          /\ diff_indices_of(InputLineSet(c)) = <<{1}>>
    /\ xml_text = xml_input
    /\ perfect_responsion

\* the positions at which some strophe's line differs from the first
\* strophe's line
DiffPositions(line_set) ==
    UNION {diff_indices_of(line_set)[i] : i \in DOMAIN diff_indices_of(line_set)}

\* C23: autofix is attempted only in the simple case: the lines of all
\* strophes have the same canonical length and differ at exactly one
\* position; a failing line set that differs at two or more positions is
\* left unmodified and stays buggy.
C23_AutofixOnlyAtOnePosition ==
    /\ (pc = "if_success" /\ autofix_result.success) =>
          /\ ~LengthsDiffer(lines_at(line_index))
          /\ Cardinality(DiffPositions(lines_at(line_index))) = 1
    /\ \A c \in checked :
          Cardinality(DiffPositions(InputLineSet(c))) >= 2 =>
              /\ c.after = c.before
              /\ c.fix \notin {"adopted", "still_fails"}
              /\ ~c.responds_after

\* what holds: an autofix is applied when the lengths are equal and at least
\* one position differs, and then marks every position that differs
AutofixAtEveryDiffPosition ==
    /\ (pc = "if_success" /\ autofix_result.success) =>
          /\ ~LengthsDiffer(lines_at(line_index))
          /\ Cardinality(DiffPositions(lines_at(line_index))) >= 1
    /\ (pc = "if_success" /\ ~autofix_result.success) =>
          \/ LengthsDiffer(lines_at(line_index))
          \/ DiffPositions(lines_at(line_index)) = {}

\* two heavy syllables facing two light syllables: both positions are
\* marked, the recheck succeeds, the fix is adopted and True is returned
TwoPositionsMarked ==
    /\ pc = "assert_done"
    /\ \E c \in Adopted :
          /\ Len(InputLineSet(c)) = 2
          /\ canonical_sylls(InputLineSet(c)[1]) = <<"heavy", "heavy">>
          /\ canonical_sylls(InputLineSet(c)[2]) = <<"light", "light">>
          /\ DiffPositions(InputLineSet(c)) = {1, 2}
          /\ \A k \in 1..2 :
                canonical_sylls(line_set_in(xml_text, responsion_id_at(c.group),
                                            c.index)[k])
                   = <<"anceps", "anceps">>
    /\ perfect_responsion

\* every line of the set has an n attribute, and no two have the same
DistinctlyNumbered(line_set) ==
    \A a, b \in DOMAIN line_set :
        /\ line_set[a].n # NoAttr
        /\ a # b => line_set[a].n # line_set[b].n

\* the positions at which the polystrophic check of the lines fails: two
\* syllables that are not anceps and differ
FailingPositions(line_set) ==
    LET c == [k \in DOMAIN line_set |-> canonical_sylls(line_set[k])]
    IN {p \in ZipPositions(c) :
           \E a, b \in DOMAIN c :
               /\ c[a][p] # "anceps" /\ c[b][p] # "anceps"
               /\ c[a][p] # c[b][p]}

\* the lines of the set in the text autofix_responsion returned
FixedLines ==
    line_set_in(autofix_result.fixed_xml, responsion_id_at(group_pos),
                line_index)

\* C26: when autofix_responsion reports success for a failing line set whose
\* lines have equal canonical lengths and pairwise distinct n attributes, the
\* recheck of the fixed lines succeeds ("autofix applied but responsion still
\* fails" does not happen): the union of the diff positions against the first
\* strophe covers every position at which the polystrophic check fails, and
\* the anceps marks change no line's canonical length and make no other
\* position fail.
C26_SuccessfulAutofixPassesTheRecheck ==
    /\ (pc = "if_success" /\ autofix_result.success
            /\ DistinctlyNumbered(lines_at(line_index))) =>
          /\ ~LengthsDiffer(lines_at(line_index))
          /\ FailingPositions(lines_at(line_index))
                \subseteq DiffPositions(lines_at(line_index))
          /\ \A k \in DOMAIN FixedLines :
                Len(canonical_sylls(FixedLines[k]))
                   = Len(canonical_sylls(lines_at(line_index)[k]))
          /\ FailingPositions(FixedLines) = {}
          /\ check_line_responsion(FixedLines)
    /\ \A c \in checked :
          c.fix = "still_fails" => ~DistinctlyNumbered(InputLineSet(c))

\* a resolution pair facing a light syllable, the lines numbered: the fix is
\* returned with the pair and the light syllable marked, and the recheck of
\* the fixed lines succeeds
C26_Witness ==
    /\ pc = "if_success"
    /\ autofix_result.success
    /\ DistinctlyNumbered(lines_at(line_index))
    /\ FailingPositions(lines_at(line_index)) # {}
    /\ \E k \in DOMAIN FixedLines :
          /\ Len(FixedLines[k].sylls) > Len(canonical_sylls(FixedLines[k]))
          /\ \A i \in DOMAIN FixedLines[k].sylls : FixedLines[k].sylls[i].anceps
    /\ check_line_responsion(FixedLines)

PairDone == pc = "pair_done"

\* the two strophes carry different responsion ids
DifferentIds == strophes[1].responsion # strophes[2].responsion

\* the two strophes have different numbers of lines
DifferentLineCounts == Len(strophes[1].lines) # Len(strophes[2].lines)

\* no line pair was compared
NoLineCompared == line_pos = 0 /\ lines = <<>> /\ combined = NoLists

\* C29: accentually_responding_syllables_of_strophe_pair returns False,
\* without comparing any lines, when the strophe and the antistrophe carry
\* different responsion ids or have different numbers of lines.
C29_MismatchedPairReturnsFalse ==
    (PairDone /\ (DifferentIds \/ DifferentLineCounts)) =>
        result = ReturnFalse /\ NoLineCompared

\* what holds: different numbers of lines give False with no line compared
DifferentLineCountsReturnFalse ==
    (PairDone /\ DifferentLineCounts) =>
        result = ReturnFalse /\ NoLineCompared

\* strophes with different ids and equally many lines: the lines are
\* compared, and the matches of the accents are returned
DifferentIdsCompared ==
    /\ PairDone
    /\ DifferentIds
    /\ ~DifferentLineCounts
    /\ line_pos > 1
    /\ result.kind = "lists"
    /\ result.lists[1] # <<>>

\* the metric returned its stat_dictionary: the lines of the canticum respond
MetricDone == pc = "metric_done" /\ result.kind = "lists"

\* the value of the stat lies in [0, 1]
InUnitInterval(stat) == 0 <= stat.num /\ stat.num <= stat.den

\* C30: each value accentual_responsion_metric_canticum returns lies in
\* [0, 1] for every canticum whose lines respond: the sum of the sizes of the
\* match groups counts no syllable more than once, also where single and
\* double units meet at the same ordinal of a polystrophic canticum.
C30_MetricWithinUnitInterval ==
    MetricDone =>
        /\ InUnitInterval(stat_dictionary.acute)
        /\ InUnitInterval(stat_dictionary.grave)
        /\ InUnitInterval(stat_dictionary.circumflex)
        /\ InUnitInterval(stat_dictionary.acute_circumflex)

\* what holds: with two strophes every value lies in [0, 1], and the grave
\* and the circumflex values do with any number of strophes
MetricOfPairWithinUnitInterval ==
    MetricDone =>
        /\ InUnitInterval(stat_dictionary.grave)
        /\ InUnitInterval(stat_dictionary.circumflex)
        /\ Len(strophes) = 2 =>
              /\ InUnitInterval(stat_dictionary.acute)
              /\ InUnitInterval(stat_dictionary.acute_circumflex)

\* three strophes of one numbered line: two of a heavy syllable with an
\* acute, one of a resolution pair with a circumflex and an acute. The pair
\* is matched with each of the two single syllables, four entries are
\* counted, and the canticum has three syllables with an acute
MixedUnitsCountedTwice ==
    /\ MetricDone
    /\ Len(strophes) = 3
    /\ \A k \in DOMAIN strophes : Len(strophes[k].lines) = 1
    /\ Cardinality({k \in DOMAIN strophes :
                       Len(strophes[k].lines[1].sylls) = 2}) = 1
    /\ Len(result.lists[1]) = 2
    /\ count_all_accents_canticum(strophes)[1] = 3
    /\ stat_dictionary.acute = [num |-> 4, den |-> 3]

\* get_shape_canticum returned the row lengths
ShapeDone == pc = "shape_done" /\ result.kind # "AttributeError"

\* the lines get_shape_canticum went through
ShapeLines == strophes_with(strophes, shape_id)[1].lines

\* C27: get_shape_canticum returns, for each line of the first strophe with
\* the responsion id, the number of canonical syllables of the line, that is
\* len(canonical_sylls(line)), also for lines with two or more adjacent
\* resolution pairs or an unpaired resolution-flagged syllable.
C27_ShapeIsCanonicalLength ==
    ShapeDone =>
        /\ DOMAIN row_lengths = DOMAIN ShapeLines
        /\ \A l \in DOMAIN ShapeLines :
              row_lengths[l] = Len(canonical_sylls(ShapeLines[l]))

\* the longest run of resolution-flagged syllables of the line is at most max
RunsAtMost(line, max) ==
    \A i \in DOMAIN line.sylls :
        i + max \in DOMAIN line.sylls =>
            \E j \in i..(i + max) : ~line.sylls[j].resolution

\* what holds: the two agree on the lines in which no more than two
\* resolution-flagged syllables follow one another and every syllable has text
ShapeOfSeparatePairsIsCanonicalLength ==
    ShapeDone =>
        \A l \in DOMAIN ShapeLines :
            (/\ RunsAtMost(ShapeLines[l], 2)
             /\ \A i \in DOMAIN ShapeLines[l].sylls :
                   content_of(ShapeLines[l].sylls[i]) # <<>>)
               => row_lengths[l] = Len(canonical_sylls(ShapeLines[l]))

\* a line of two adjacent resolution pairs: two canonical syllables, and a
\* row length of one
AdjacentPairsCountedOnce ==
    /\ ShapeDone
    /\ \E l \in DOMAIN ShapeLines :
          /\ Len(ShapeLines[l].sylls) = 4
          /\ \A i \in 1..4 : ShapeLines[l].sylls[i].resolution
          /\ Len(canonical_sylls(ShapeLines[l])) = 2
          /\ row_lengths[l] = 1

\* a resolution pair followed by an unpaired resolution-flagged syllable: two
\* canonical syllables, and a row length of one
UnpairedAfterPairCountedOnce ==
    /\ ShapeDone
    /\ \E l \in DOMAIN ShapeLines :
          /\ Len(ShapeLines[l].sylls) = 3
          /\ \A i \in 1..3 : ShapeLines[l].sylls[i].resolution
          /\ Len(canonical_sylls(ShapeLines[l])) = 2
          /\ row_lengths[l] = 1

-----------------------------------------------------------------------------
(* The lyric baseline: lengths, independence, order of the searches *)

\* lyric_line_sample_cached has returned
SampleDone == pc = "sampled"

\* C24: every line lyric_line_sample_cached returns for a target length has
\* that canonical length, as canonical_sylls computes it, also when it was
\* made by trimming a longer line or padding a shorter one and the line it
\* was made of has resolution pairs.
C24_SampledLineHasTargetLength ==
    (SampleDone /\ sample_line # NoLine)
        => Len(canonical_sylls(sample_line.line)) = length

\* the sampled line was changed the given way
Changed(sampled, change) ==
    /\ Len(sampled.source) = 4
    /\ sampled.source[4][1] = change

\* the line the sampled line was made of has a resolution pair
FromResolutionPair(sampled) ==
    \E i \in DOMAIN sampled.origins[1].line.sylls :
        /\ sampled.origins[1].line.sylls[i].resolution
        /\ i + 1 \in DOMAIN sampled.origins[1].line.sylls
        /\ sampled.origins[1].line.sylls[i + 1].resolution

\* what holds: a line taken as it is has the target length, and so has a
\* line trimmed from, or padded from, a line without resolution-flagged
\* syllables, as long as the padding found syllables to append
UnresolvedLineHasTargetLength ==
    (SampleDone /\ sample_line # NoLine)
        => \/ Len(canonical_sylls(sample_line.line)) = length
           \/ /\ Changed(sample_line, "trimmed")
              /\ \E i \in DOMAIN sample_line.origins[1].line.sylls :
                     sample_line.origins[1].line.sylls[i].resolution
           \/ /\ Changed(sample_line, "padded")
              /\ Len(sample_line.line.sylls)
                     = Len(sample_line.origins[1].line.sylls)

\* a line trimmed by one syllable from a line with a resolution pair: the
\* pair is cut in two and the line is one canonical syllable too long
TrimmedPairKeepsLength ==
    /\ SampleDone
    /\ sample_line # NoLine
    /\ Changed(sample_line, "trimmed")
    /\ FromResolutionPair(sample_line)
    /\ length = 1
    /\ Len(canonical_sylls(sample_line.line)) = 2

\* a line labelled padded to which nothing was appended
PaddedWithNothing ==
    /\ SampleDone
    /\ sample_line # NoLine
    /\ Changed(sample_line, "padded")
    /\ sample_line.line.sylls = sample_line.origins[1].line.sylls
    /\ Len(canonical_sylls(sample_line.line)) < length

\* the amounts from..to of a stage, in order
StageAmounts(stage, from, to) == [k \in 1..(to - from + 1) |-> <<stage, from + k - 1>>]

\* the fallback sequence as documented
DocumentedOrder ==
    <<<<"pindar_exact", 0>>>>
    \o StageAmounts("pindar_trim", 1, PINDAR_MAX_TRIMMING)
    \o <<<<"external_exact", 0>>>>
    \o StageAmounts("external_trim", 1, EXTERNAL_MAX_TRIMMING)
    \o StageAmounts("pindar_pad", 1, PINDAR_MAX_PADDING)
    \o StageAmounts("external_pad", 1, EXTERNAL_MAX_PADDING)

\* the searches made so far are the first of the documented order
TriedInDocumentedOrder ==
    /\ Len(tried) <= Len(DocumentedOrder)
    /\ tried = SubSeq(DocumentedOrder, 1, Len(tried))

\* the stage and the amount a sampled line says it is of
StageOf(sampled) ==
    LET external == sampled.source[1] # sampled.origins[1].responsion_id
        change == IF Len(sampled.source) = 4 THEN sampled.source[4][1]
                  ELSE "exact"
    IN <<(IF external THEN "external_" ELSE "pindar_")
            \o (IF change = "trimmed" THEN "trim"
                ELSE IF change = "padded" THEN "pad" ELSE "exact"),
         IF Len(sampled.source) = 4 THEN sampled.source[4][2] ELSE 0>>

\* C28: lyric_line_sample_cached searches in the documented order (Pindar
\* exact; Pindar trimmed by 1..PINDAR_MAX_TRIMMING; external exact; external
\* trimmed by 1..EXTERNAL_MAX_TRIMMING; Pindar padded by
\* 1..PINDAR_MAX_PADDING; external padded by 1..EXTERNAL_MAX_PADDING), every
\* amount of a stage before the next stage; the line it returns is of the
\* search made last; it returns None only after every stage and every amount
\* was searched.
C28_StagesInDocumentedOrder ==
    /\ TriedInDocumentedOrder
    /\ (SampleDone /\ sample_line # NoLine)
           => StageOf(sample_line) = tried[Len(tried)]
    /\ (SampleDone /\ sample_line = NoLine) => tried = DocumentedOrder

\* what holds: the order of the searches made, and the stage of the line
SearchesMadeInDocumentedOrder ==
    /\ TriedInDocumentedOrder
    /\ (SampleDone /\ sample_line # NoLine)
           => StageOf(sample_line) = tried[Len(tried)]

\* the usable lines of the corpus whose canonical length is n
Usable(corpus, n) ==
    filter_lines_with_all_independence_checks(
        lines_by_length(corpus, n), exclude_file, used_metrical_positions,
        used_responsions_this_position)

\* None although a shorter Pindar line could have been padded: without the
\* folder of the external corpus the padding stages are never reached
NoneWithoutPindarPadding ==
    /\ SampleDone
    /\ sample_line = NoLine
    /\ ~external_corpus.exists
    /\ tried[Len(tried)] = <<"pindar_trim", PINDAR_MAX_TRIMMING>>
    /\ Usable(cached_corpus, length - 1) # <<>>
    /\ Len(available_syllables(cached_corpus, exclude_file)) >= 1

\* None after the first amount of external padding although an external
\* line shorter by two could have been padded
NoneAfterFirstExternalPadding ==
    /\ SampleDone
    /\ sample_line = NoLine
    /\ tried[Len(tried)] = <<"external_pad", 1>>
    /\ Usable(external_corpus.items, length - 2) # <<>>
    /\ Len(plain_syllables(external_corpus.items)) >= 2

\* the lines accepted so far for the sample, by line position
AcceptedLines ==
    IF pc \in {"baseline_done"} \/ (pc = "line_loop" /\ position_lines = <<>>)
    THEN lines_by_position
    ELSE Append(lines_by_position, position_lines)

\* the lines the accepted lines were made of, each with the line position and
\* the strophe of the accepted line and its place in it
OriginsOf(accepted) ==
    UNION {UNION {{[position |-> l, strophe |-> s, part |-> j,
                    item |-> accepted[l][s].origins[j]]
                   : j \in DOMAIN accepted[l][s].origins}
                  : s \in DOMAIN accepted[l]}
           : l \in DOMAIN accepted}

Origins == OriginsOf(AcceptedLines)

\* C25: within one sample of make_lyric_baseline, after any sequence of
\* sampling attempts and fallbacks, no accepted line comes from the file
\* being baselined, no two come from the same metrical position (file,
\* canticum index, strophe index, line index), and at each line position no
\* two lines of different strophes of the sample come from the same
\* responsion id.
C25_IndependenceOfAcceptedLines ==
    LET origins == Origins IN
    /\ \A o \in origins : o.item.file # exclude_file
    /\ \A o1, o2 \in origins :
           o1 # o2 => position_key(o1.item) # position_key(o2.item)
    /\ \A o1, o2 \in origins :
           (o1.position = o2.position /\ o1.strophe # o2.strophe)
               => o1.item.responsion_id # o2.item.responsion_id

\* a finished sample of two strophes for which a line of the file being
\* baselined and a second line of a responsion id already used at the
\* position were at hand and left out
C25_Witness ==
    /\ pc = "baseline_done"
    /\ result = NoResult
    /\ sample_size = 2
    /\ Len(lines_by_position) = Len(strophe_scheme)
    /\ \E k \in DOMAIN cached_corpus :
           /\ cached_corpus[k].file = exclude_file
           /\ Len(canonical_sylls(cached_corpus[k].line)) = strophe_scheme[1]
    /\ \E k \in DOMAIN cached_corpus :
           /\ cached_corpus[k].file # exclude_file
           /\ Len(canonical_sylls(cached_corpus[k].line)) = strophe_scheme[1]
           /\ position_key(cached_corpus[k]) \notin used_metrical_positions
           /\ \E o \in Origins :
                  /\ o.position = 1
                  /\ o.item.responsion_id = cached_corpus[k].responsion_id

====
